---- MODULE Spec2Model ----
(***************************************************************************)
(* Request-admission pipeline of cnative/pkg: bearer-token extraction in   *)
(* the gRPC interceptors and in the gateway HTTP middleware, followed by   *)
(* auth.Runtime Verify and Authorize, and the translation of their results *)
(* into gRPC status codes / HTTP statuses.                                 *)
(*                                                                         *)
(* Header values are sequences of one-character strings so that the string *)
(* operations of the code (SplitN, Split, EqualFold) are computed and not  *)
(* assumed.  Collaborators (OIDC verifier, resolvers, decision function)   *)
(* are nondeterministic: every operator that calls one is set-valued and   *)
(* yields one outcome per possible answer of the collaborator.             *)
(***************************************************************************)
EXTENDS Integers, Sequences, FiniteSets, TLC

VARIABLES
    rt,   \* the auth runtime, as NewRuntime configured it
    out,  \* the outcome of the request in flight at the middleware
    cs,   \* a request-scoped context and the operation that produced it
    ch,   \* one call through a composed interceptor chain
    mx,   \* the connection multiplexers and the connection being routed
    sv    \* the servers and tasks of the server runtime, from Start to Stop

vars == <<rt, out, cs, ch, mx, sv>>

Nil == "nil"

----------------------------------------------------------------------------
(* Bounds *)

\* largest number of authorization header / metadata values on one request
MaxHdrs == 2
\* longest role list a role-binding resolver answers with
MaxRoles == 2
\* most interceptors composed into one chain
MaxChain == 3

----------------------------------------------------------------------------
(* Go strings package, on sequences of characters *)

UpperCase == <<"A","B","C","D","E","F","G","H","I","J","K","L","M",
               "N","O","P","Q","R","S","T","U","V","W","X","Y","Z">>
LowerCase == <<"a","b","c","d","e","f","g","h","i","j","k","l","m",
               "n","o","p","q","r","s","t","u","v","w","x","y","z">>

ToLower(c) ==
    IF \E i \in 1..Len(UpperCase) : UpperCase[i] = c
    THEN LowerCase[CHOOSE i \in 1..Len(UpperCase) : UpperCase[i] = c]
    ELSE c

\* strings.EqualFold(a, b) for ASCII text
EqualFold(a, b) ==
    /\ Len(a) = Len(b)
    /\ \A i \in 1..Len(a) : ToLower(a[i]) = ToLower(b[i])

\* strings.Index(s, sep), 1-based; 0 when sep does not occur (sep non-empty)
Index(s, sep) ==
    LET I == {i \in 1..(Len(s) - Len(sep) + 1) :
                 SubSeq(s, i, i + Len(sep) - 1) = sep}
    IN  IF I = {} THEN 0 ELSE CHOOSE i \in I : \A j \in I : i <= j

\* strings.SplitN(s, sep, n); n < 0 splits at every occurrence
RECURSIVE SplitN(_, _, _)
SplitN(s, sep, n) ==
    IF n = 0 THEN <<>>
    ELSE IF n = 1 THEN <<s>>
    ELSE LET i == Index(s, sep)
         IN  IF i = 0 THEN <<s>>
             ELSE <<SubSeq(s, 1, i - 1)>>
                    \o SplitN(SubSeq(s, i + Len(sep), Len(s)), sep, n - 1)

\* strings.Split(s, sep)
Split(s, sep) == SplitN(s, sep, -1)

----------------------------------------------------------------------------
(* Literals of the middleware *)

\* "bearer", the scheme the gRPC interceptor compares with
bearerScheme == <<"b","e","a","r","e","r">>
\* "Bearer", the separator the HTTP middleware splits at
BearerSep == <<"B","e","a","r","e","r">>
Space == <<" ">>

Unauthenticated == "Unauthenticated"
PermissionDenied == "PermissionDenied"
Internal == "Internal"
OK == "OK"

StatusUnauthorized == 401
StatusForbidden == 403

\* auth.Anonymous
Anonymous == "anonymous"

----------------------------------------------------------------------------
(* Values *)

None == <<>>
Some(x) == <<x>>

\* permutations of a finite set, as sequences without repetition
Perms(S) ==
    {p \in [1..Cardinality(S) -> S] : \A i, j \in DOMAIN p : p[i] = p[j] => i = j}

Range(s) == {s[i] : i \in DOMAIN s}

\* the AuthorizationResult zero value
ZeroResult == [Allowed |-> FALSE, ResourceMatched |-> FALSE]

\* a context.Context: the values attached under the authn and authz keys,
\* and whether it has been cancelled (a derived context inherits that)
Background == [isNil |-> FALSE, authn |-> None, authz |-> None, done |-> FALSE]
NilContext == [isNil |-> TRUE, authn |-> None, authz |-> None, done |-> FALSE]

\* the context after its cancel function has been called
cancel(ctx) == [ctx EXCEPT !.done = TRUE]

\* the context Verify derives: the resolved identity under the authn key
newContext(parent, user) ==
    [parent EXCEPT !.authn = Some([user |-> user, claims |-> None])]

\* a constructor that starts from an empty context instead of the parent
newAuthenticatedContext_FreshContext(parent, user, cl) ==
    [isNil |-> FALSE, authn |-> Some([user |-> user, claims |-> Some(cl)]),
     authz |-> None, done |-> FALSE]

\* newAuthenticatedContext: user and claims under the authn key
newAuthenticatedContext(parent, user, cl) ==
    [parent EXCEPT !.authn = Some([user |-> user, claims |-> Some(cl)])]

\* newAuthorizedContext: the roles under the authz key
newAuthorizedContext(parent, roles) ==
    [parent EXCEPT !.authz = Some([roles |-> roles])]

CurrentUser(ctx) ==
    IF ctx.authn # None THEN ctx.authn[1].user ELSE Anonymous

\* CurrentUserClaims: None stands for the nil Claims
CurrentUserClaims(ctx) ==
    IF ctx.authn # None THEN ctx.authn[1].claims ELSE None

\* CurrentUserRoles: the empty list stands for the nil slice
CurrentUserRoles(ctx) ==
    IF ctx.authz # None THEN ctx.authz[1].roles ELSE <<>>

----------------------------------------------------------------------------
(* Inputs *)

Basic == <<"B","a","s","i","c">>
Tok == <<"t","1">>

\* Authorization header / metadata values a client may send
HeaderValues ==
    { BearerSep \o Space \o Tok,              \* "Bearer t1"
      bearerScheme \o Space \o Tok,           \* "bearer t1"
      BearerSep \o Tok,                       \* "Bearert1"
      BearerSep,                              \* "Bearer"
      Basic \o Space \o Tok,                  \* "Basic t1"
      BearerSep \o Space \o BearerSep }       \* "Bearer Bearer"

HeaderLists == UNION {[1..n -> HeaderValues] : n \in 0..MaxHdrs}

AdminGroup == "admins"
AdminRole == "admin"
RoleNames == {AdminRole, "viewer"}
RoleLists == UNION {[1..n -> RoleNames] : n \in 0..MaxRoles}

Email == "alice@example.com"
Subject == "subject-1"
GroupLists == {<<>>, <<"dev", AdminGroup>>, <<"dev", "">>}
ClaimsSet == {[Email |-> Email, Subject |-> Subject, Groups |-> g] : g \in GroupLists}

\* the method-descriptor registry: authz annotation of each registered method
MethodDescriptors ==
    [ Read  |-> [ext |-> "authz", resource |-> "doc", action |-> "read"],
      Ping  |-> [ext |-> "none",  resource |-> "",    action |-> ""],
      Bad   |-> [ext |-> "undecodable", resource |-> "", action |-> ""] ]
Methods == DOMAIN MethodDescriptors \cup {"Unknown"}

GRPCRequests ==
    {[md |-> TRUE, authHdrs |-> h, method |-> m] : h \in HeaderLists, m \in Methods}
      \cup {[md |-> FALSE, authHdrs |-> <<>>, method |-> m] : m \in Methods}
HTTPRequests == {[md |-> TRUE, authHdrs |-> h, method |-> "GET"] : h \in HeaderLists}

----------------------------------------------------------------------------
(* Collaborators: every answer they can give *)

ResourceIdentifierAnswers ==
    {[val |-> "r1", err |-> Nil], [val |-> "", err |-> "resource id failed"]}

RoleBindingAnswers ==
    {[val |-> l, err |-> Nil] : l \in RoleLists}
      \cup {[val |-> <<>>, err |-> "role lookup failed"]}

ResourceAnswers ==
    {[val |-> {<<"owner", Email>>}, err |-> Nil],
     [val |-> {}, err |-> "resource lookup failed"]}

\* the OIDC verifier: rejects the token, or decodes it to some claims
VerifierAnswers ==
    {[claims |-> Some(c), err |-> Nil] : c \in ClaimsSet}
      \cup {[claims |-> None, err |-> "id token verification failed"]}

\* decision functions an application may configure
ReadDocOnly(authzReq) ==
    [ar |-> [Allowed |-> authzReq.Resource = "doc" /\ authzReq.Action = "read",
             ResourceMatched |-> authzReq.Resource = "doc"],
     err |-> Nil]

AuthorizerAnswers(fn, authzReq) ==
    IF fn = "readDocOnly" THEN {ReadDocOnly(authzReq)}
    ELSE {[ar |-> [Allowed |-> a, ResourceMatched |-> m], err |-> Nil] :
             a \in BOOLEAN, m \in BOOLEAN}
           \cup {[ar |-> [Allowed |-> a, ResourceMatched |-> a],
                  err |-> "policy engine failed"] : a \in BOOLEAN}

----------------------------------------------------------------------------
(* auth.Runtime *)

\* runtimes NewRuntime can construct from the options
Runtimes ==
    [ authorizer          : {Nil, "readDocOnly", "any"},
      adminMapping        : {<<"", "">>, <<AdminGroup, AdminRole>>, <<"", AdminRole>>},
      roleBindingResolver : BOOLEAN,
      resourceResolver    : BOOLEAN,
      resourceIdentifier  : BOOLEAN,
      idResolver          : {"emailAsIDResolver"},
      appName             : {"app"},
      serviceName         : {"svc"} ]

\* r.idResolver applied to the claims: emailAsIDResolver unless the
\* IDResolver option installed another function (here: the subject)
idResolver(r, cl) ==
    IF r.idResolver = "emailAsIDResolver" THEN cl.Email ELSE cl.Subject

adminGroup(r) == r.adminMapping[1]
adminRole(r) == r.adminMapping[2]

\* a mapping that looks at the first group only
hasExternalAdminGroupMapping_FirstOnly(r, claims) ==
    /\ Len(claims.Groups) > 0
    /\ adminGroup(r) # "" /\ adminGroup(r) = claims.Groups[1]

\* a mapping that compares the groups with an unset admin group too
hasExternalAdminGroupMapping_NoEmptyCheck(r, claims) ==
    \E i \in 1..Len(claims.Groups) : adminGroup(r) = claims.Groups[i]

hasExternalAdminGroupMapping(r, claims) ==
    \E i \in 1..Len(claims.Groups) :
        adminGroup(r) # "" /\ adminGroup(r) = claims.Groups[i]

\* what one Authorize call hands back, with the collaborator calls it made:
\* calls lists them in order, authzReq is the request given to the decision
\* function, bound and decision are the answers of the role-binding resolver
\* and of the decision function
AzReturn(in, ar, err, calls, authzReq, bound, decision) ==
    [in |-> in, ctx |-> in.ctx, ar |-> ar, err |-> err, calls |-> calls,
     authzReq |-> authzReq, bound |-> bound, decision |-> decision,
     rbSubject |-> None, resSubject |-> None]

\* the subject argument the role-binding resolver and the resource resolver
\* were called with, noted on the results of the calls that reached them
rbGiven(r, subject, results) ==
    IF r.roleBindingResolver
    THEN {[a EXCEPT !.rbSubject = Some(subject)] : a \in results}
    ELSE results
resGiven(r, subject, results) ==
    IF r.resourceResolver
    THEN {[a EXCEPT !.resSubject = Some(subject)] : a \in results}
    ELSE results

\* a role list that keeps the resolver's answer as it came
RolesOf_Appended(admin, boundRoles) ==
    {p \o boundRoles : p \in Perms(admin)}

\* the role list built from the keys of mroles, which holds the admin grant
\* and every bound role: ranging over a Go map visits the keys in any order
RolesOf(admin, boundRoles) == Perms(admin \cup Range(boundRoles))

\* a decision step that hands back the zero result when the decision fails
AuthorizeDecide_ZeroOnError(r, in, rid, bound, roles, calls0) ==
    LET resAnswers == IF r.resourceResolver
                      THEN ResourceAnswers
                      ELSE {[val |-> {}, err |-> Nil]}
        calls1 == IF r.resourceResolver
                  THEN Append(calls0, "resourceResolver") ELSE calls0
    IN  UNION {
          IF res.err # Nil
          THEN {AzReturn(in, ZeroResult, res.err, calls1, None, bound, None)}
          ELSE LET authzReq ==
                     [App |-> r.appName, Service |-> r.serviceName,
                      Subject |-> CurrentUser(in.ctx), Resource |-> in.resource,
                      ResourceID |-> rid, Action |-> in.action,
                      RoleBindings |-> roles, ResourceInfo |-> res.val,
                      Claims |-> in.claims]
               IN  {AzReturn(in, IF d.err # Nil THEN ZeroResult ELSE d.ar, d.err,
                             Append(calls1, "authorizer"),
                             Some(authzReq), bound, Some(d)) :
                        d \in AuthorizerAnswers(r.authorizer, authzReq)}
          : res \in resAnswers }

\* a decision step that takes the subject from the claims argument
AuthorizeDecide_SubjectFromClaims(r, in, rid, bound, roles, calls0) ==
    LET subject == idResolver(r, in.claims)
        resAnswers == IF r.resourceResolver
                      THEN ResourceAnswers
                      ELSE {[val |-> {}, err |-> Nil]}
        calls1 == IF r.resourceResolver
                  THEN Append(calls0, "resourceResolver") ELSE calls0
    IN  resGiven(r, subject, UNION {
          IF res.err # Nil
          THEN {AzReturn(in, ZeroResult, res.err, calls1, None, bound, None)}
          ELSE LET authzReq ==
                     [App |-> r.appName, Service |-> r.serviceName,
                      Subject |-> subject, Resource |-> in.resource,
                      ResourceID |-> rid, Action |-> in.action,
                      RoleBindings |-> roles, ResourceInfo |-> res.val,
                      Claims |-> in.claims]
               IN  {AzReturn(in, d.ar, d.err, Append(calls1, "authorizer"),
                             Some(authzReq), bound, Some(d)) :
                        d \in AuthorizerAnswers(r.authorizer, authzReq)}
          : res \in resAnswers })

\* steps (5)-(7): resource attributes, request assembly, decision
AuthorizeDecide(r, in, rid, bound, roles, calls0) ==
    LET subject == CurrentUser(in.ctx)
        resAnswers == IF r.resourceResolver
                      THEN ResourceAnswers
                      ELSE {[val |-> {}, err |-> Nil]}
        calls1 == IF r.resourceResolver
                  THEN Append(calls0, "resourceResolver") ELSE calls0
    IN  resGiven(r, subject, UNION {
          IF res.err # Nil
          THEN {AzReturn(in, ZeroResult, res.err, calls1, None, bound, None)}
          ELSE LET authzReq ==
                     [App |-> r.appName, Service |-> r.serviceName,
                      Subject |-> subject, Resource |-> in.resource,
                      ResourceID |-> rid, Action |-> in.action,
                      RoleBindings |-> roles, ResourceInfo |-> res.val,
                      Claims |-> in.claims]
               IN  {AzReturn(in, d.ar, d.err, Append(calls1, "authorizer"),
                             Some(authzReq), bound, Some(d)) :
                        d \in AuthorizerAnswers(r.authorizer, authzReq)}
          : res \in resAnswers })

\* steps (3)-(4): role bindings of the subject, merged into the role set
AuthorizeRoles(r, in, rid, calls0) ==
    LET subject == CurrentUser(in.ctx)
        admin == IF hasExternalAdminGroupMapping(r, in.claims)
                 THEN {adminRole(r)} ELSE {}
        rbAnswers == IF r.roleBindingResolver
                     THEN RoleBindingAnswers
                     ELSE {[val |-> <<>>, err |-> Nil]}
        calls1 == IF r.roleBindingResolver
                  THEN Append(calls0, "roleBindingResolver") ELSE calls0
    IN  rbGiven(r, subject, UNION {
          IF rb.err # Nil
          THEN {AzReturn(in, ZeroResult, rb.err, calls1, None, None, None)}
          ELSE LET bound == IF r.roleBindingResolver THEN Some(rb.val) ELSE None
               IN  UNION {AuthorizeDecide(r, in, rid, bound, roles, calls1) :
                             roles \in RolesOf(admin, rb.val)}
          : rb \in rbAnswers })

\* an Authorize that goes on to the decision without an authorizer check
Authorize_NoAuthorizerCheck(r, ctx, claims, resource, action, req) ==
    LET in == [ctx |-> ctx, claims |-> claims, resource |-> resource,
               action |-> action, req |-> req]
        ridAnswers == IF r.resourceIdentifier
                      THEN ResourceIdentifierAnswers
                      ELSE {[val |-> "", err |-> Nil]}
        calls1 == IF r.resourceIdentifier
                  THEN <<"resourceIdentifier">> ELSE <<>>
    IN  UNION {
          IF rid.err # Nil
          THEN {AzReturn(in, ZeroResult, rid.err, calls1, None, None, None)}
          ELSE AuthorizeRoles(r, in, rid.val, calls1)
          : rid \in ridAnswers }

\* an Authorize that goes on after the resource identifier has failed
Authorize_ContinueOnError(r, ctx, claims, resource, action, req) ==
    LET in == [ctx |-> ctx, claims |-> claims, resource |-> resource,
               action |-> action, req |-> req]
    IN  IF r.authorizer = Nil
        THEN {AzReturn(in, ZeroResult, Nil, <<>>, None, None, None)}
        ELSE LET ridAnswers == IF r.resourceIdentifier
                               THEN ResourceIdentifierAnswers
                               ELSE {[val |-> "", err |-> Nil]}
                 calls1 == IF r.resourceIdentifier
                           THEN <<"resourceIdentifier">> ELSE <<>>
             IN  UNION {AuthorizeRoles(r, in, rid.val, calls1) : rid \in ridAnswers}

\* runtime.Authorize: every result the call can have
Authorize(r, ctx, claims, resource, action, req) ==
    LET in == [ctx |-> ctx, claims |-> claims, resource |-> resource,
               action |-> action, req |-> req]
    IN  IF r.authorizer = Nil
        THEN {AzReturn(in, ZeroResult, Nil, <<>>, None, None, None)}
        ELSE LET ridAnswers == IF r.resourceIdentifier
                               THEN ResourceIdentifierAnswers
                               ELSE {[val |-> "", err |-> Nil]}
                 calls1 == IF r.resourceIdentifier
                           THEN <<"resourceIdentifier">> ELSE <<>>
             IN  UNION {
                   IF rid.err # Nil
                   THEN {AzReturn(in, ZeroResult, rid.err, calls1, None, None, None)}
                   ELSE AuthorizeRoles(r, in, rid.val, calls1)
                   : rid \in ridAnswers }

\* a Verify that returns the context it was given when the token is good
Verify_SameContext(r, ctx, token) ==
    {IF v.err # Nil \/ token = <<>>
     THEN [ctx |-> NilContext, claims |-> None,
           err |-> "id token verification failed", token |-> token]
     ELSE [ctx |-> ctx, claims |-> v.claims, err |-> Nil, token |-> token]
       : v \in VerifierAnswers}

\* a Verify that hands back an authenticated context along with its error
Verify_ContextOnFailure(r, ctx, token) ==
    {IF v.err # Nil \/ token = <<>>
     THEN [ctx |-> newContext(ctx, Email), claims |-> None,
           err |-> "id token verification failed", token |-> token]
     ELSE [ctx |-> newContext(ctx, idResolver(r, v.claims[1])), claims |-> v.claims,
           err |-> Nil, token |-> token]
       : v \in VerifierAnswers}

\* runtime.Verify: every result the call can have; the verifier rejects a
\* token without characters and may accept or reject any other
Verify(r, ctx, token) ==
    {IF v.err # Nil \/ token = <<>>
     THEN [ctx |-> NilContext, claims |-> None,
           err |-> "id token verification failed", token |-> token]
     ELSE [ctx |-> newContext(ctx, idResolver(r, v.claims[1])), claims |-> v.claims,
           err |-> Nil, token |-> token]
       : v \in VerifierAnswers}

----------------------------------------------------------------------------
(* server/middleware: gRPC *)

\* a token resolver that takes the first of several authorization values
getTokenFromGRPCContext_FirstValue(req) ==
    IF ~req.md
    THEN [token |-> <<>>, err |-> "Context does not contain any metadata"]
    ELSE IF Len(req.authHdrs) = 0
    THEN [token |-> <<>>, err |-> "Found n authorization headers, expected 1"]
    ELSE LET sp == SplitN(req.authHdrs[1], Space, 2)
         IN  IF Len(sp) # 2
             THEN [token |-> <<>>, err |-> "not <type> <token> format"]
             ELSE IF ~EqualFold(sp[1], bearerScheme)
             THEN [token |-> <<>>, err |-> "Only bearer tokens are supported"]
             ELSE [token |-> sp[2], err |-> Nil]

\* getTokenFromGRPCContext: the bearer token of the incoming metadata
getTokenFromGRPCContext(req) ==
    IF ~req.md
    THEN [token |-> <<>>, err |-> "Context does not contain any metadata"]
    ELSE IF Len(req.authHdrs) # 1
    THEN [token |-> <<>>, err |-> "Found n authorization headers, expected 1"]
    ELSE LET sp == SplitN(req.authHdrs[1], Space, 2)
         IN  IF Len(sp) # 2
             THEN [token |-> <<>>, err |-> "not <type> <token> format"]
             ELSE IF ~EqualFold(sp[1], bearerScheme)
             THEN [token |-> <<>>, err |-> "Only bearer tokens are supported"]
             ELSE [token |-> sp[2], err |-> Nil]

\* what auth0 returns, with the calls it made on the auth runtime
Auth0Return(ctx, code, calls, token, verify, az) ==
    [ctx |-> ctx, code |-> code, calls |-> calls, token |-> token,
     verify |-> verify, az |-> az]

\* an auth0 that forwards the call whatever the decision is
auth0Authorize_IgnoreDecision(r, v, req, payload, resource, action) ==
    {IF a.err # Nil
     THEN Auth0Return(a.ctx, PermissionDenied, <<"Verify", "Authorize">>,
                      Some(v.token), Some(v), Some(a))
     ELSE Auth0Return(a.ctx, OK, <<"Verify", "Authorize">>,
                      Some(v.token), Some(v), Some(a))
       : a \in Authorize(r, v.ctx, v.claims[1], resource, action, payload)}

\* an auth0 that reports an Authorize error as an internal error
auth0Authorize_InternalOnError(r, v, req, payload, resource, action) ==
    {IF a.err # Nil
     THEN Auth0Return(a.ctx, Internal, <<"Verify", "Authorize">>,
                      Some(v.token), Some(v), Some(a))
     ELSE IF a.ar.Allowed
     THEN Auth0Return(a.ctx, OK, <<"Verify", "Authorize">>,
                      Some(v.token), Some(v), Some(a))
     ELSE Auth0Return(a.ctx, PermissionDenied, <<"Verify", "Authorize">>,
                      Some(v.token), Some(v), Some(a))
       : a \in Authorize(r, v.ctx, v.claims[1], resource, action, payload)}

\* auth0, from the Authorize call on
auth0Authorize(r, v, req, payload, resource, action) ==
    {IF a.err # Nil
     THEN Auth0Return(a.ctx, PermissionDenied, <<"Verify", "Authorize">>,
                      Some(v.token), Some(v), Some(a))
     ELSE IF a.ar.Allowed
     THEN Auth0Return(a.ctx, OK, <<"Verify", "Authorize">>,
                      Some(v.token), Some(v), Some(a))
     ELSE Auth0Return(a.ctx, PermissionDenied, <<"Verify", "Authorize">>,
                      Some(v.token), Some(v), Some(a))
       : a \in Authorize(r, v.ctx, v.claims[1], resource, action, payload)}

\* an auth0 that goes on to Authorize, with empty claims, when Verify failed
auth0_NoVerifyCheck(r, ctx, req, payload, resource, action) ==
    LET t == getTokenFromGRPCContext(req)
    IN  IF t.err # Nil
        THEN {Auth0Return(ctx, Unauthenticated, <<>>, None, None, None)}
        ELSE UNION {
               IF v.err # Nil
               THEN {[o EXCEPT !.verify = Some(v)] :
                       o \in auth0Authorize(r,
                               [v EXCEPT !.claims = Some([Email |-> "", Subject |-> "", Groups |-> <<>>])],
                               req, payload, resource, action)}
               ELSE auth0Authorize(r, v, req, payload, resource, action)
               : v \in Verify(r, ctx, t.token) }

\* auth0: token, Verify, Authorize; code OK stands for the nil error
auth0(r, ctx, req, payload, resource, action) ==
    LET t == getTokenFromGRPCContext(req)
    IN  IF t.err # Nil
        THEN {Auth0Return(ctx, Unauthenticated, <<>>, None, None, None)}
        ELSE UNION {
               IF v.err # Nil
               THEN {Auth0Return(v.ctx, Unauthenticated, <<"Verify">>,
                                 Some(t.token), Some(v), None)}
               ELSE auth0Authorize(r, v, req, payload, resource, action)
               : v \in Verify(r, ctx, t.token) }

\* a resolver that fails on a method the registry does not hold
resourceActionResolver_ErrOnAbsent(methodName, methodDescriptors) ==
    IF methodName \notin DOMAIN methodDescriptors
    THEN [resource |-> "", action |-> "", err |-> "unknown method"]
    ELSE IF methodDescriptors[methodName].ext = "none"
    THEN [resource |-> "", action |-> "", err |-> Nil]
    ELSE IF methodDescriptors[methodName].ext = "undecodable"
    THEN [resource |-> "", action |-> "", err |-> "bad extension"]
    ELSE [resource |-> methodDescriptors[methodName].resource,
          action |-> methodDescriptors[methodName].action, err |-> Nil]

\* resourceActionResolver: the (resource, action) a method is annotated with
resourceActionResolver(methodName, methodDescriptors) ==
    IF methodName \in DOMAIN methodDescriptors
       /\ methodDescriptors[methodName].ext # "none"
    THEN IF methodDescriptors[methodName].ext = "undecodable"
         THEN [resource |-> "", action |-> "", err |-> "bad extension"]
         ELSE [resource |-> methodDescriptors[methodName].resource,
               action |-> methodDescriptors[methodName].action, err |-> Nil]
    ELSE [resource |-> "", action |-> "", err |-> Nil]

\* the outcome of one request at the middleware boundary
Outcome(transport, req, code, status, handler, handlerCtx, calls, token, verify, az) ==
    [transport |-> transport, req |-> req, code |-> code, status |-> status,
     handler |-> handler, handlerCtx |-> handlerCtx, calls |-> calls,
     token |-> token, verify |-> verify, az |-> az]

\* the body shared by the unary and the stream interceptor
grpcAuth(transport, payload, r, methodDescriptors, req) ==
    LET ra == resourceActionResolver(req.method, methodDescriptors)
    IN  IF ra.err # Nil
        THEN {Outcome(transport, req, "Unknown", 0, FALSE, None, <<>>,
                      None, None, None)}
        ELSE {IF a.code # OK
              THEN Outcome(transport, req, a.code, 0, FALSE, None, a.calls,
                           a.token, a.verify, a.az)
              ELSE Outcome(transport, req, OK, 0, TRUE, Some(a.ctx),
                           Append(a.calls, "handler"), a.token, a.verify, a.az)
                : a \in auth0(r, Background, req, payload, ra.resource, ra.action)}

\* the interceptor unaryAuth builds: Authorize sees the request message
unaryAuth(r, methodDescriptors, req) ==
    grpcAuth("unary", "message", r, methodDescriptors, req)

\* the interceptor streamAuth builds: Authorize sees the stream
streamAuth(r, methodDescriptors, req) ==
    grpcAuth("stream", "stream", r, methodDescriptors, req)

----------------------------------------------------------------------------
(* server/middleware: HTTP *)

\* http.Header.Get: the first value of the header, "" when there is none
HeaderGet(req) == IF Len(req.authHdrs) = 0 THEN <<>> ELSE req.authHdrs[1]

\* the token HTTPRuntimeIDAuth takes from the Authorization header
httpToken(req) ==
    LET sp == Split(HeaderGet(req), BearerSep)
    IN  IF Len(sp) # 2
        THEN [token |-> <<>>, err |-> "Unauthorized"]
        ELSE [token |-> sp[2], err |-> Nil]

\* HTTPRuntimeIDAuth, from the Authorize call on
httpAuthorize(r, v, req) ==
    {IF a.err # Nil \/ ~a.ar.Allowed
     THEN Outcome("http", req, Nil, StatusForbidden, FALSE, None,
                  <<"Verify", "Authorize">>, Some(v.token), Some(v), Some(a))
     ELSE Outcome("http", req, Nil, 0, TRUE, Some(a.ctx),
                  <<"Verify", "Authorize", "handler">>,
                  Some(v.token), Some(v), Some(a))
       : a \in Authorize(r, v.ctx, v.claims[1], "", "", Nil)}

\* HTTPRuntimeIDAuth: status 0 stands for the response of the wrapped handler
HTTPRuntimeIDAuth(r, req) ==
    LET t == httpToken(req)
    IN  IF t.err # Nil
        THEN {Outcome("http", req, Nil, StatusUnauthorized, FALSE, None, <<>>,
                      None, None, None)}
        ELSE UNION {
               IF v.err # Nil
               THEN {Outcome("http", req, Nil, StatusUnauthorized, FALSE, None,
                             <<"Verify">>, Some(t.token), Some(v), None)}
               ELSE httpAuthorize(r, v, req)
               : v \in Verify(r, Background, t.token) }

----------------------------------------------------------------------------
(* The state machine: a configured runtime serving one request after       *)
(* another; requests are independent of each other                         *)

NoRequest == [md |-> FALSE, authHdrs |-> <<>>, method |-> ""]
Idle == Outcome("none", NoRequest, Nil, 0, FALSE, None, <<>>, None, None, None)

\* contexts and arguments an application may call Authorize with directly
DirectContexts ==
    {Background, newContext(Background, Email),
     newContext(Background, "bob@example.com")}
DirectTargets == {<<"", "">>, <<"doc", "read">>, <<"doc", "write">>}

\* the parts of the state that belong to the other specifications, at rest
CsOff == [op |-> "off"]
ChOff == [pc |-> "off"]
MxOff == [pc |-> "off"]
SvOff == [pc |-> "off"]

Init ==
    /\ rt \in Runtimes
    /\ out = Idle
    /\ cs = CsOff /\ ch = ChOff /\ mx = MxOff /\ sv = SvOff

\* a unary gRPC call arrives
UnaryCall ==
    /\ out = Idle
    /\ \E req \in GRPCRequests : out' \in unaryAuth(rt, MethodDescriptors, req)
    /\ UNCHANGED <<rt, cs, ch, mx, sv>>

\* a streaming gRPC call arrives
StreamCall ==
    /\ out = Idle
    /\ \E req \in GRPCRequests : out' \in streamAuth(rt, MethodDescriptors, req)
    /\ UNCHANGED <<rt, cs, ch, mx, sv>>

\* a gateway HTTP request arrives
HTTPCall ==
    /\ out = Idle
    /\ \E req \in HTTPRequests : out' \in HTTPRuntimeIDAuth(rt, req)
    /\ UNCHANGED <<rt, cs, ch, mx, sv>>

\* the application calls Authorize itself
AuthorizeCall ==
    /\ out = Idle
    /\ \E ctx \in DirectContexts, c \in ClaimsSet, t \in DirectTargets :
         \E a \in Authorize(rt, ctx, c, t[1], t[2], "message") :
            out' = Outcome("direct", NoRequest, Nil, 0, FALSE, None,
                           <<"Authorize">>, None, None, Some(a))
    /\ UNCHANGED <<rt, cs, ch, mx, sv>>

\* the response has been written; the server waits for the next request
Finish ==
    /\ out # Idle
    /\ out' = Idle
    /\ UNCHANGED <<rt, cs, ch, mx, sv>>

Next == UnaryCall \/ StreamCall \/ HTTPCall \/ AuthorizeCall \/ Finish

Spec == Init /\ [][Next]_vars

----------------------------------------------------------------------------
(* Request-scoped contexts: a caller holds a context, derives new ones     *)
(* with the package's constructors and passes it through Verify and        *)
(* Authorize; cs.ctx is the context the caller holds, cs.ret what the last *)
(* operation returned, cs.from the operation that produced cs.ctx          *)

CtxUsers == {Email, "bob@example.com"}
CtxTokens == {Tok, <<>>}

\* runtimes as NewRuntime builds them with or without the IDResolver option
CtxRuntimes ==
    [ authorizer          : {Nil, "readDocOnly"},
      adminMapping        : {<<AdminGroup, AdminRole>>},
      roleBindingResolver : {FALSE},
      resourceResolver    : {FALSE},
      resourceIdentifier  : {FALSE},
      idResolver          : {"emailAsIDResolver", "subjectAsIDResolver"},
      appName             : {"app"},
      serviceName         : {"svc"} ]

CtxState(op, from, parent, ctx, ret, user, claims, roles, err, az) ==
    [op |-> op, from |-> from, parent |-> parent, ctx |-> ctx, ret |-> ret,
     user |-> user, claims |-> claims, roles |-> roles, err |-> err, az |-> az]

CsStart ==
    CtxState("start", "start", Background, Background, Background,
             "", None, <<>>, Nil, None)

InitCtx ==
    /\ rt \in CtxRuntimes
    /\ cs = CsStart
    /\ out = Idle /\ ch = ChOff /\ mx = MxOff /\ sv = SvOff

\* the caller attaches an authenticated record
NewAuthenticatedContext ==
    /\ \E user \in CtxUsers, cl \in ClaimsSet :
         LET c == newAuthenticatedContext(cs.ctx, user, cl)
         IN  cs' = CtxState("newAuthenticatedContext", "newAuthenticatedContext",
                            cs.ctx, c, c, user, Some(cl), <<>>, Nil, None)
    /\ UNCHANGED <<rt, out, ch, mx, sv>>

\* the caller attaches an authorized record
NewAuthorizedContext ==
    /\ \E roles \in RoleLists :
         LET c == newAuthorizedContext(cs.ctx, roles)
         IN  cs' = CtxState("newAuthorizedContext", cs.from,
                            cs.ctx, c, c, "", None, roles, Nil, None)
    /\ UNCHANGED <<rt, out, ch, mx, sv>>

\* the context the caller holds is cancelled before the next operation
Cancel ==
    /\ ~cs.ctx.done
    /\ cs' = CtxState("cancel", cs.from, cs.ctx, cancel(cs.ctx), cancel(cs.ctx),
                      "", None, <<>>, Nil, None)
    /\ UNCHANGED <<rt, out, ch, mx, sv>>

\* the caller verifies a token; on failure it holds on to the context it had
VerifyCall ==
    /\ \E token \in CtxTokens : \E v \in Verify(rt, cs.ctx, token) :
         cs' = IF v.err # Nil
               THEN CtxState("Verify", cs.from, cs.ctx, cs.ctx, v.ctx,
                             "", v.claims, <<>>, v.err, None)
               ELSE CtxState("Verify", "Verify", cs.ctx, v.ctx, v.ctx,
                             "", v.claims, <<>>, Nil, None)
    /\ UNCHANGED <<rt, out, ch, mx, sv>>

\* the caller authorizes and goes on with the context Authorize returned
CtxAuthorizeCall ==
    /\ \E c \in ClaimsSet, t \in DirectTargets :
         \E a \in Authorize(rt, cs.ctx, c, t[1], t[2], "message") :
            cs' = CtxState("Authorize", cs.from, cs.ctx, a.ctx, a.ctx,
                           "", Some(c), <<>>, a.err, Some(a))
    /\ UNCHANGED <<rt, out, ch, mx, sv>>

\* the request is over; the next one starts from the background context
CtxDone ==
    /\ cs # CsStart
    /\ cs' = CsStart
    /\ UNCHANGED <<rt, out, ch, mx, sv>>

NextCtx ==
    \/ NewAuthenticatedContext \/ NewAuthorizedContext \/ Cancel
    \/ VerifyCall \/ CtxAuthorizeCall \/ CtxDone

SpecCtx == InitCtx /\ [][NextCtx]_vars

----------------------------------------------------------------------------
(* Interceptor chains: one call through the interceptor that               *)
(* chainingUnaryInterceptor / chainingStreamInterceptor returns, followed  *)
(* call by call and return by return                                       *)

\* what a composed interceptor does with the call: "pass" calls its
\* continuation and returns what it returned, "mask" calls it and returns a
\* value of its own, "twice" calls it a second time after the first call
\* returned, "deny" returns an error without calling it, "auth" is the
\* interceptor unaryAuth / streamAuth builds
Behaviours == {"pass", "mask", "twice", "deny", "auth"}
Chains == UNION {[1..n -> Behaviours] : n \in 0..MaxChain}
Kinds == {"unary", "stream"}

\* calls of the continuation an interceptor makes before it returns
Calls(b) == IF b = "twice" THEN 2 ELSE 1

\* values travelling back up the chain: who made it and what it is
Val(by, val) == [by |-> by, val |-> val]
NoVal == Val(-2, "")
ByHandler == -1

\* the value an interceptor at index i returns for the value v it got back
Returns(b, i, v) == IF b = "mask" THEN Val(i, "masked") ELSE v

\* the runtime and the calls the auth interceptor of a chain works with
ChainRuntime ==
    [authorizer |-> "readDocOnly", adminMapping |-> <<"", "">>,
     roleBindingResolver |-> FALSE, resourceResolver |-> FALSE,
     resourceIdentifier |-> FALSE, idResolver |-> "emailAsIDResolver",
     appName |-> "app", serviceName |-> "svc"]
ChainRequests ==
    {[md |-> TRUE, authHdrs |-> <<BearerSep \o Space \o Tok>>, method |-> m] :
        m \in {"Read", "Ping"}}

\* a chainingUnaryInterceptor that builds the closure for one interceptor too
chainingUnaryInterceptor_NoSingleCase(interceptors) ==
    IF Len(interceptors) = 0 THEN "default" ELSE "chain"

\* the switch of chainingUnaryInterceptor: which interceptor it returns
chainingUnaryInterceptor(interceptors) ==
    IF Len(interceptors) = 0 THEN "default"
    ELSE IF Len(interceptors) = 1 THEN "single"
    ELSE "chain"

\* the switch of chainingStreamInterceptor
chainingStreamInterceptor(interceptors) ==
    IF Len(interceptors) = 0 THEN "default"
    ELSE IF Len(interceptors) = 1 THEN "single"
    ELSE "chain"

\* a continuation that hands the call to the handler one interceptor early
next_OneEarly(n, cur) ==
    IF cur >= n - 2
    THEN [to |-> "handler", cur |-> cur]
    ELSE [to |-> "interceptor", cur |-> cur + 1]

\* the closure next, up to the call it makes: the handler after the last
\* interceptor, else cur++ and interceptors[cur]
next(n, cur) ==
    IF cur = n - 1
    THEN [to |-> "handler", cur |-> cur]
    ELSE [to |-> "interceptor", cur |-> cur + 1]

\* the closure next, after interceptors[cur] returned: cur--
nextReturn(cur) == cur - 1

\* a closure next that answers for the interceptor it called
nextResult_Dropped(v) == [by |-> v.by, val |-> "nil"]

\* the closure next returns resp, err as interceptors[cur] returned them
nextResult(v) == v

\* a wrapper without a Context method of its own
StreamContext_Embedded(ws, base, ref) == base

\* streams: 0 is the transport's stream, k > 0 the k-th wrappedServerStream
\* of the heap ws, a record of its embedded stream and its wrappedContext
StreamContext(ws, base, ref) == IF ref = 0 THEN base ELSE ws[ref].wrappedContext

\* the stream that SendMsg, RecvMsg and the other promoted methods reach
RECURSIVE Transport(_, _)
Transport(ws, ref) == IF ref = 0 THEN 0 ELSE Transport(ws, ws[ref].ServerStream)

\* wrapServerStream: the stream itself when it is a wrapper already, else a
\* new wrapper holding the stream and the stream's context
wrapServerStream(ws, base, ref) ==
    IF ref # 0
    THEN [ws |-> ws, ref |-> ref]
    ELSE [ws |-> Append(ws, [ServerStream |-> ref,
                             wrappedContext |-> StreamContext(ws, base, ref)]),
          ref |-> Len(ws) + 1]

\* what the caller hands to an interceptor or the handler: the context of
\* a unary call, the stream of a streaming call
Arg(ctx, stream) == [ctx |-> ctx, stream |-> stream]
ArgContext(c, arg) ==
    IF c.kind = "unary" THEN arg.ctx
    ELSE StreamContext(c.ws, Background, arg.stream)

\* events of a call, in the order they happen
Ev(e, i, ctx, t, v) == [e |-> e, i |-> i, ctx |-> ctx, t |-> t, v |-> v]
EvEnter(i, ctx) == Ev("enter", i, ctx, -1, NoVal)
EvNext(i) == Ev("next", i, NilContext, -1, NoVal)
EvHandler(ctx, t) == Ev("handler", ByHandler, ctx, t, NoVal)
EvObserve(i, v) == Ev("observe", i, NilContext, -1, v)
EvExit(i, v) == Ev("exit", i, NilContext, -1, v)

ChIdle ==
    [pc |-> "idle", kind |-> "unary", ics |-> <<>>, mode |-> "default",
     req |-> NoRequest, cur |-> 0, at |-> 0, arg |-> Arg(Background, 0),
     stack |-> <<>>, trace |-> <<>>, ws |-> <<>>, ret |-> NoVal,
     from |-> ByHandler]

InitChain ==
    /\ rt = ChainRuntime
    /\ ch = ChIdle
    /\ out = Idle /\ cs = CsOff /\ mx = MxOff /\ sv = SvOff

\* gRPC calls the interceptor the server was built with
ChainCall ==
    /\ ch.pc = "idle"
    /\ \E kind \in Kinds, ics \in Chains, req \in ChainRequests :
         LET mode == IF kind = "unary"
                     THEN chainingUnaryInterceptor(ics)
                     ELSE chainingStreamInterceptor(ics)
         IN  ch' = [ChIdle EXCEPT
                      !.pc = IF mode = "default" THEN "handler" ELSE "enter",
                      !.kind = kind, !.ics = ics, !.mode = mode, !.req = req]
    /\ UNCHANGED <<rt, out, cs, mx, sv>>

\* an interceptor of the application starts: it returns at once or calls
\* its continuation with the arguments it was given
InterceptorEnter ==
    /\ ch.pc = "enter"
    /\ ch.ics[ch.at + 1] # "auth"
    /\ LET b == ch.ics[ch.at + 1]
           entered == Append(ch.trace, EvEnter(ch.at, ArgContext(ch, ch.arg)))
       IN  IF b = "deny"
           THEN ch' = [ch EXCEPT
                         !.pc = "return", !.ret = Val(ch.at, "denied"),
                         !.from = ch.at,
                         !.trace = Append(entered,
                                          EvExit(ch.at, Val(ch.at, "denied")))]
           ELSE ch' = [ch EXCEPT
                         !.pc = "continue", !.trace = entered,
                         !.stack = Append(ch.stack,
                                     [i |-> ch.at, left |-> Calls(b) - 1,
                                      arg |-> ch.arg])]
    /\ UNCHANGED <<rt, out, cs, mx, sv>>

\* the interceptor of unaryAuth / streamAuth starts
AuthInterceptorEnter ==
    /\ ch.pc = "enter"
    /\ ch.ics[ch.at + 1] = "auth"
    /\ LET ctx == ArgContext(ch, ch.arg)
           entered == Append(ch.trace, EvEnter(ch.at, ctx))
           ra == resourceActionResolver(ch.req.method, MethodDescriptors)
           payload == IF ch.kind = "unary" THEN "message" ELSE "stream"
       IN  \E a \in auth0(rt, ctx, ch.req, payload, ra.resource, ra.action) :
             IF a.code # OK
             THEN ch' = [ch EXCEPT
                           !.pc = "return", !.ret = Val(ch.at, a.code),
                           !.from = ch.at,
                           !.trace = Append(entered,
                                            EvExit(ch.at, Val(ch.at, a.code)))]
             ELSE IF ch.kind = "unary"
             THEN ch' = [ch EXCEPT
                           !.pc = "continue", !.trace = entered,
                           !.arg = Arg(a.ctx, 0),
                           !.stack = Append(ch.stack,
                                       [i |-> ch.at, left |-> 0,
                                        arg |-> Arg(a.ctx, 0)])]
             ELSE LET w == wrapServerStream(ch.ws, Background, ch.arg.stream)
                      arg == Arg(ch.arg.ctx, w.ref)
                  IN  ch' = [ch EXCEPT
                               !.pc = "continue", !.trace = entered,
                               !.ws = [w.ws EXCEPT ![w.ref].wrappedContext = a.ctx],
                               !.arg = arg,
                               !.stack = Append(ch.stack,
                                           [i |-> ch.at, left |-> 0,
                                            arg |-> arg])]
    /\ UNCHANGED <<rt, out, cs, mx, sv>>

\* the interceptor on top of the stack calls its continuation: the handler
\* itself when it is the only interceptor, the closure next otherwise
Continue ==
    /\ ch.pc = "continue"
    /\ LET top == ch.stack[Len(ch.stack)]
       IN  IF ch.mode = "single"
           THEN ch' = [ch EXCEPT !.pc = "handler", !.arg = top.arg]
           ELSE LET nx == next(Len(ch.ics), ch.cur)
                IN  ch' = [ch EXCEPT
                             !.pc = IF nx.to = "handler" THEN "handler"
                                    ELSE "enter",
                             !.cur = nx.cur, !.at = nx.cur, !.arg = top.arg,
                             !.trace = Append(ch.trace, EvNext(top.i))]
    /\ UNCHANGED <<rt, out, cs, mx, sv>>

\* the application handler runs and returns its response
HandlerRun ==
    /\ ch.pc = "handler"
    /\ ch' = [ch EXCEPT
                !.pc = "return", !.ret = Val(ByHandler, "response"),
                !.from = ByHandler,
                !.trace = Append(ch.trace,
                            EvHandler(ArgContext(ch, ch.arg),
                                      IF ch.kind = "stream"
                                      THEN Transport(ch.ws, ch.arg.stream)
                                      ELSE -1))]
    /\ UNCHANGED <<rt, out, cs, mx, sv>>

\* a value comes back: to the caller of the composite when no interceptor
\* is waiting, else through next (cur--) to the interceptor that called
Return ==
    /\ ch.pc = "return"
    /\ IF ch.stack = <<>>
       THEN ch' = [ch EXCEPT !.pc = "done"]
       ELSE LET top == ch.stack[Len(ch.stack)]
                cur == IF ch.mode = "chain" /\ ch.from # ByHandler
                       THEN nextReturn(ch.cur) ELSE ch.cur
                got == IF ch.mode = "chain" /\ ch.from # ByHandler
                       THEN nextResult(ch.ret) ELSE ch.ret
                seen == Append(ch.trace, EvObserve(top.i, got))
                v == Returns(ch.ics[top.i + 1], top.i, got)
            IN  IF top.left > 0
                THEN ch' = [ch EXCEPT
                              !.pc = "continue", !.cur = cur, !.trace = seen,
                              !.stack[Len(ch.stack)].left = top.left - 1]
                ELSE ch' = [ch EXCEPT
                              !.pc = "return", !.cur = cur, !.ret = v,
                              !.from = top.i,
                              !.stack = SubSeq(ch.stack, 1, Len(ch.stack) - 1),
                              !.trace = Append(seen, EvExit(top.i, v))]
    /\ UNCHANGED <<rt, out, cs, mx, sv>>

\* gRPC has the result; the server waits for the next call
ChainDone ==
    /\ ch.pc = "done"
    /\ ch' = ChIdle
    /\ UNCHANGED <<rt, out, cs, mx, sv>>

NextChain ==
    \/ ChainCall \/ InterceptorEnter \/ AuthInterceptorEnter
    \/ Continue \/ HandlerRun \/ Return \/ ChainDone

SpecChain == InitChain /\ [][NextChain]_vars

----------------------------------------------------------------------------
(* Connection multiplexing: Start puts a multiplexer cm on the gRPC port   *)
(* and, with TLS, a second one tcm behind the TLS listener; each accepted  *)
(* connection is matched on its first bytes and handed to a listener       *)

\* what the first bytes of a stream are: a TLS ClientHello, an HTTP/1.1
\* request line with that method, an HTTP/2 preface with or without the
\* gRPC content-type header, anything else; "" is a stream that yields no
\* bytes (the TLS handshake failed)
PlainPrefixes == {"GET", "PATCH", "h2-grpc", "h2-other", "junk"}
TLSHello == "tls-hello"
NoBytes == ""

\* connections: the bytes on the wire and, under TLS, the decrypted bytes,
\* whether the client completes a handshake and the certificate it presents
ClientCerts == {"none", "trusted", "untrusted"}
Conns ==
    {[outer |-> p, inner |-> NoBytes, handshake |-> FALSE, clientCert |-> "none"] :
        p \in PlainPrefixes}
      \cup {[outer |-> TLSHello, inner |-> p, handshake |-> h, clientCert |-> c] :
                p \in PlainPrefixes, h \in BOOLEAN, c \in ClientCerts}

\* the bytes of a stream that starts with prefix p, in the units matchers
\* read them: the prefix itself and what follows it
Bytes(p) == IF p = NoBytes THEN <<>> ELSE <<(<<p, 1>>), (<<p, 2>>), (<<p, 3>>)>>

\* the matchers Start uses
TLS == [kind |-> "TLS", ext |-> {}]
HTTP1Fast(ext) == [kind |-> "HTTP1Fast", ext |-> ext]
HTTP2GrpcContentType == [kind |-> "HTTP2MatchHeaderFieldPrefixSendSettings", ext |-> {}]
cmuxAny == [kind |-> "Any", ext |-> {}]

\* methods HTTP1Fast matches without extension
HTTP1Methods == {"GET"}

Matches(m, prefix) ==
    IF m.kind = "Any" THEN TRUE
    ELSE IF m.kind = "TLS" THEN prefix = TLSHello
    ELSE IF m.kind = "HTTP1Fast" THEN prefix \in HTTP1Methods \cup m.ext
    ELSE prefix = "h2-grpc"

\* server configurations: TLS material or not, gateway or not, and whether
\* the HTTP/1 matcher is extended with PATCH
MuxConfigs ==
    {c \in [secure : BOOLEAN, gwEnabled : BOOLEAN, patch : BOOLEAN,
            keyPair : {"", "valid", "invalid"},
            clientCA : {"", "valid", "unreadable", "no-certificate"}] :
        /\ c.secure <=> c.keyPair # ""
        /\ ~c.secure => c.clientCA = ""}

RequireAndVerifyClientCert == "RequireAndVerifyClientCert"
NoClientCert == "NoClientCert"

\* getTLSConfig: the *tls.Config and the error it returns; None is nil
getTLSConfig(cfg) ==
    IF cfg.keyPair # "valid"
    THEN [config |-> None, err |-> "tls.LoadX509KeyPair"]
    ELSE IF cfg.clientCA # ""
    THEN IF cfg.clientCA = "unreadable"
         THEN [config |-> None, err |-> "ioutil.ReadFile"]
         ELSE IF cfg.clientCA = "no-certificate"
         THEN [config |-> None, err |-> Nil]
         ELSE [config |-> Some([ClientAuth |-> RequireAndVerifyClientCert,
                                ClientCAs |-> cfg.clientCA]),
               err |-> Nil]
    ELSE [config |-> Some([ClientAuth |-> NoClientCert, ClientCAs |-> ""]),
          err |-> Nil]

\* wrapListenerWithTLS: the listener is known by the config it was given
wrapListenerWithTLS(cfg) ==
    LET tc == getTLSConfig(cfg)
    IN  IF tc.err # Nil
        THEN [listener |-> None, err |-> tc.err]
        ELSE [listener |-> Some([config |-> tc.config]), err |-> Nil]

\* the protocol servers Start has accept from each listener
Servers(cfg) ==
    [tlsl  |-> {"tcm"},
     grpcL |-> {"grpcServer"},
     gwL   |-> IF cfg.gwEnabled THEN {"gwServer"} ELSE {}]

\* a Start that registers the catch-all matcher first
Registrations_AnyFirst(cfg) ==
    LET h1 == HTTP1Fast(IF cfg.patch THEN {"PATCH"} ELSE {})
    IN  IF cfg.secure
        THEN [cm  |-> <<[m |-> TLS, l |-> "tlsl"]>>,
              tcm |-> <<[m |-> HTTP2GrpcContentType, l |-> "grpcL"],
                        [m |-> h1, l |-> "gwL"]>>]
        ELSE [cm  |-> <<[m |-> cmuxAny, l |-> "grpcL"],
                        [m |-> h1, l |-> "gwL"]>>,
              tcm |-> <<>>]

\* a Start that puts the HTTP/1 matcher first on the decrypted stream too
Registrations_HTTP1FirstBehindTLS(cfg) ==
    LET h1 == HTTP1Fast(IF cfg.patch THEN {"PATCH"} ELSE {})
    IN  IF cfg.secure
        THEN [cm  |-> <<[m |-> TLS, l |-> "tlsl"]>>,
              tcm |-> <<[m |-> h1, l |-> "gwL"],
                        [m |-> HTTP2GrpcContentType, l |-> "grpcL"]>>]
        ELSE [cm  |-> <<[m |-> h1, l |-> "gwL"],
                        [m |-> cmuxAny, l |-> "grpcL"]>>,
              tcm |-> <<>>]

\* a Start that lets plaintext fall through to the gRPC server under TLS
Registrations_PlainFallback(cfg) ==
    LET h1 == HTTP1Fast(IF cfg.patch THEN {"PATCH"} ELSE {})
    IN  IF cfg.secure
        THEN [cm  |-> <<[m |-> TLS, l |-> "tlsl"],
                        [m |-> cmuxAny, l |-> "grpcL"]>>,
              tcm |-> <<[m |-> HTTP2GrpcContentType, l |-> "grpcL"],
                        [m |-> h1, l |-> "gwL"]>>]
        ELSE [cm  |-> <<[m |-> h1, l |-> "gwL"],
                        [m |-> cmuxAny, l |-> "grpcL"]>>,
              tcm |-> <<>>]

\* the matchers Start registers with cm and tcm, in registration order,
\* each with the listener Match returned for it
Registrations(cfg) ==
    LET h1 == HTTP1Fast(IF cfg.patch THEN {"PATCH"} ELSE {})
    IN  IF cfg.secure
        THEN [cm  |-> <<[m |-> TLS, l |-> "tlsl"]>>,
              tcm |-> <<[m |-> HTTP2GrpcContentType, l |-> "grpcL"],
                        [m |-> h1, l |-> "gwL"]>>]
        ELSE [cm  |-> <<[m |-> h1, l |-> "gwL"],
                        [m |-> cmuxAny, l |-> "grpcL"]>>,
              tcm |-> <<>>]

\* a serve loop that hands an unmatched connection to the first listener
RECURSIVE serve_DefaultFirst(_, _, _)
serve_DefaultFirst(regs, prefix, k) ==
    IF k > Len(regs) THEN (IF Len(regs) > 0 THEN 1 ELSE 0)
    ELSE IF Matches(regs[k].m, prefix) THEN k
    ELSE serve_DefaultFirst(regs, prefix, k + 1)

\* the multiplexer's serve loop: the position of the first registered
\* matcher that matches the prefix, from position k on; 0 when none does
RECURSIVE serve(_, _, _)
serve(regs, prefix, k) ==
    IF k > Len(regs) THEN 0
    ELSE IF Matches(regs[k].m, prefix) THEN k
    ELSE serve(regs, prefix, k + 1)

\* units a matcher reads from the start of the stream to decide
Reads(m) ==
    IF m.kind = "Any" THEN 0
    ELSE IF m.kind = "HTTP2MatchHeaderFieldPrefixSendSettings" THEN 2
    ELSE 1

\* the sniffing buffer after the matchers at positions j..n have read the
\* stream from its start, each through the buffer
RECURSIVE sniffed(_, _, _, _, _)
sniffed(regs, j, n, buf, sent) ==
    IF j > n THEN buf
    ELSE LET want == IF Reads(regs[j].m) > Len(sent) THEN Len(sent)
                     ELSE Reads(regs[j].m)
         IN  sniffed(regs, j + 1, n,
                     IF want > Len(buf) THEN SubSeq(sent, 1, want) ELSE buf,
                     sent)

\* a connection that forgets what the matchers read
afterSniffing_Discards(buf, sent) == SubSeq(sent, Len(buf) + 1, Len(sent))

\* what a reader of the connection gets once sniffing is over: the buffer,
\* then the rest of the stream
afterSniffing(buf, sent) == buf \o SubSeq(sent, Len(buf) + 1, Len(sent))

MuxState(pc, cfg, conn, at, listener, pos) ==
    [pc |-> pc, cfg |-> cfg, conn |-> conn, at |-> at,
     listener |-> listener, pos |-> pos,
     tls |-> None, hs |-> "", tried |-> <<>>, buf |-> <<>>,
     handed |-> <<>>, by |-> "", read |-> <<>>, readTLS |-> <<>>]
NoConn ==
    [outer |-> NoBytes, inner |-> NoBytes, handshake |-> FALSE,
     clientCert |-> "none"]
MxIdle(cfg) == MuxState("idle", cfg, NoConn, "cm", "", 0)
MxNew(cfg) == MuxState("new", cfg, NoConn, "cm", "", 0)

\* the bytes the multiplexer mx.at sees at the start of the connection
Prefix(m) ==
    IF m.at = "cm" THEN m.conn.outer
    ELSE IF m.hs = "ok" THEN m.conn.inner ELSE NoBytes

\* how the handshake on a connection of the TLS listener ends
Handshake(tls, conn) ==
    IF tls = None THEN {"failed", "panic"}
    ELSE IF /\ conn.handshake
            /\ tls[1].ClientAuth = RequireAndVerifyClientCert
                  => conn.clientCert = "trusted"
    THEN {"ok"} ELSE {"failed"}

InitMux ==
    /\ mx \in {MxNew(cfg) : cfg \in MuxConfigs}
    /\ rt = ChainRuntime /\ out = Idle /\ cs = CsOff /\ ch = ChOff
    /\ sv = SvOff

\* Start, as far as the gRPC port goes: the multiplexers are set up and
\* served, or Start returns the error of wrapListenerWithTLS
MuxStart ==
    /\ mx.pc = "new"
    /\ IF mx.cfg.secure
       THEN LET w == wrapListenerWithTLS(mx.cfg)
            IN  mx' = IF w.err # Nil
                      THEN [mx EXCEPT !.pc = "failed"]
                      ELSE [mx EXCEPT !.pc = "idle", !.tls = w.listener[1].config]
       ELSE mx' = [mx EXCEPT !.pc = "idle"]
    /\ UNCHANGED <<rt, out, cs, ch, sv>>

\* cm accepts a connection from the port's listener
MuxAccept ==
    /\ mx.pc = "idle"
    /\ \E c \in Conns :
         mx' = [MuxState("accepted", mx.cfg, c, "cm", "", 0) EXCEPT
                  !.tls = mx.tls]
    /\ UNCHANGED <<rt, out, cs, ch, sv>>

\* cm.Serve / tcm.Serve match the connection and hand it on, or close it
MuxServe ==
    /\ mx.pc = "accepted"
    /\ LET regs == Registrations(mx.cfg)[mx.at]
           k == serve(regs, Prefix(mx), 1)
           n == IF k = 0 THEN Len(regs) ELSE k
           tried == mx.tried \o [j \in 1..n |-> [at |-> mx.at, m |-> regs[j].m]]
           buf == sniffed(regs, 1, n, <<>>, Bytes(Prefix(mx)))
       IN  mx' = IF k = 0
                 THEN [mx EXCEPT !.pc = "closed", !.listener = "", !.pos = 0,
                                 !.tried = tried, !.buf = buf, !.handed = <<>>]
                 ELSE [mx EXCEPT !.pc = "routed", !.listener = regs[k].l,
                                 !.pos = k, !.tried = tried, !.buf = buf,
                                 !.handed = <<regs[k].l>>]
    /\ UNCHANGED <<rt, out, cs, ch, sv>>

\* tcm accepts the connection from the TLS-wrapped listener of cm; the
\* handshake runs when tcm first reads from it
TLSAccept ==
    /\ mx.pc = "routed" /\ mx.at = "cm" /\ mx.listener = "tlsl"
    /\ \E h \in Handshake(mx.tls, mx.conn) :
         mx' = IF h = "panic"
               THEN [mx EXCEPT !.pc = "crashed", !.hs = h]
               ELSE [mx EXCEPT !.pc = "accepted", !.at = "tcm",
                               !.listener = "", !.pos = 0, !.hs = h,
                               !.handed = <<>>,
                               !.readTLS = afterSniffing(mx.buf,
                                                         Bytes(mx.conn.outer))]
    /\ UNCHANGED <<rt, out, cs, ch, sv>>

\* the protocol server serving the listener accepts the connection and
\* reads from it
ServerAccept ==
    /\ mx.pc = "routed" /\ mx.listener \in {"grpcL", "gwL"}
    /\ \E srv \in Servers(mx.cfg)[mx.listener] :
         mx' = [mx EXCEPT !.pc = "served", !.by = srv,
                         !.read = afterSniffing(mx.buf, Bytes(Prefix(mx)))]
    /\ UNCHANGED <<rt, out, cs, ch, sv>>

\* nobody accepts from the listener; the client gives up
Abandon ==
    /\ mx.pc = "routed" /\ mx.listener \in {"grpcL", "gwL"}
    /\ Servers(mx.cfg)[mx.listener] = {}
    /\ mx' = [mx EXCEPT !.pc = "abandoned"]
    /\ UNCHANGED <<rt, out, cs, ch, sv>>

\* the connection is over; the multiplexer waits for the next one
MuxDone ==
    /\ mx.pc \in {"closed", "served", "abandoned"}
    /\ mx' = [MxIdle(mx.cfg) EXCEPT !.tls = mx.tls]
    /\ UNCHANGED <<rt, out, cs, ch, sv>>

NextMux ==
    \/ MuxStart \/ MuxAccept \/ MuxServe \/ TLSAccept
    \/ ServerAccept \/ Abandon \/ MuxDone

SpecMux == InitMux /\ [][NextMux]_vars



----------------------------------------------------------------------------
(* Properties                                                              *)


----------------------------------------------------------------------------
(* Properties *)

GRPCTransports == {"unary", "stream"}
Served == GRPCTransports \cup {"http"}

\* the Authorize call of the request in out, when there was one
Az == out.az[1]

\* a resolver, not the decision function, ended the Authorize call of out
ResolverFailed == out.az # None /\ Az.err # Nil /\ Az.decision = None

\* header value of the form "Bearer <token>", scheme compared without case
WellFormed(h) ==
    /\ Len(h) >= 7
    /\ EqualFold(SubSeq(h, 1, 6), bearerScheme)
    /\ h[7] = " "

\* the admin role granted to these claims by the group mapping of rt
AdminGrant(claims) ==
    IF adminGroup(rt) # "" /\ adminGroup(rt) \in Range(claims.Groups)
    THEN {adminRole(rt)} ELSE {}

\* C1: on every served request the application handler is invoked only if
\* a bearer token was extracted, Verify returned no error, and Authorize
\* returned no error with allowed=true.
C1_HandlerOnlyWhenAdmitted ==
    (out.transport \in Served /\ out.handler) =>
        /\ out.token # None
        /\ out.verify # None /\ out.verify[1].err = Nil
        /\ out.az # None /\ Az.err = Nil /\ Az.ar.Allowed

C1_Witness ==
    /\ out.transport = "stream" /\ out.handler
    /\ rt.authorizer = "any" /\ Az.decision # None

\* C2: Authorize on a runtime without an authorizer returns allowed=false
\* (and no error), whatever claims, resource, action, resolvers and admin
\* mapping are in play.
C2_NoAuthorizerDenies ==
    (rt.authorizer = Nil /\ out.az # None) =>
        /\ ~Az.ar.Allowed
        /\ Az.err = Nil

C2_Witness ==
    /\ out.transport = "direct" /\ rt.authorizer = Nil
    /\ rt.roleBindingResolver /\ rt.resourceResolver /\ rt.resourceIdentifier
    /\ adminGroup(rt) = AdminGroup
    /\ AdminGroup \in Range(Az.in.claims.Groups)
    /\ Az.in.resource = "doc" /\ Az.in.action = "read"
    /\ ~Az.ar.Allowed

\* C3: within one request Verify has completed before Authorize is called,
\* and Authorize is not called when token extraction or Verify failed.
C3_VerifyBeforeAuthorize ==
    out.transport \in Served =>
        /\ (out.az # None) <=> (\E i \in DOMAIN out.calls : out.calls[i] = "Authorize")
        /\ (out.verify # None) <=> (\E i \in DOMAIN out.calls : out.calls[i] = "Verify")
        /\ \A i \in DOMAIN out.calls :
              out.calls[i] = "Authorize" =>
                 /\ \E j \in 1..(i - 1) : out.calls[j] = "Verify"
                 /\ out.token # None
                 /\ out.verify # None /\ out.verify[1].err = Nil

C3_Witness ==
    /\ out.transport = "http"
    /\ out.calls = <<"Verify", "Authorize">>
    /\ out.verify[1].err = Nil

\* C4: a missing, duplicated or malformed authorization header and a failed
\* Verify give Unauthenticated / 401; an Authorize result with allowed=false
\* gives PermissionDenied / 403; allowed=true forwards the call.
C4_ErrorClasses ==
    LET hs == out.req.authHdrs
        badHeader == ~out.req.md \/ Len(hs) # 1 \/ ~WellFormed(hs[1])
        verifyFailed == out.verify # None /\ out.verify[1].err # Nil
        decided == out.az # None /\ Az.err = Nil
    IN  /\ (out.transport \in GRPCTransports /\ out.code # "Unknown") =>
            /\ (badHeader \/ verifyFailed) => out.code = Unauthenticated
            /\ (decided /\ ~Az.ar.Allowed) => out.code = PermissionDenied
            /\ (decided /\ Az.ar.Allowed) => out.handler
        /\ out.transport = "http" =>
            /\ (badHeader \/ verifyFailed) => out.status = StatusUnauthorized
            /\ (decided /\ ~Az.ar.Allowed) => out.status = StatusForbidden
            /\ (decided /\ Az.ar.Allowed) => out.handler

\* C5 as stated: a resolver error during Authorize reaches the RPC caller
\* as an internal-class error.
C5_ResolverErrorIsInternal ==
    (out.transport \in GRPCTransports /\ ResolverFailed) => out.code = Internal

\* C5: a resolver error during Authorize reaches the caller as a
\* permission-denied-class error (gRPC PermissionDenied, HTTP 403) and the
\* handler is not invoked.
C5_ResolverErrorIsPermissionDenied ==
    /\ (out.transport \in GRPCTransports /\ ResolverFailed) =>
          out.code = PermissionDenied /\ ~out.handler
    /\ (out.transport = "http" /\ ResolverFailed) =>
          out.status = StatusForbidden /\ ~out.handler

C5_Witness ==
    /\ out.transport = "unary" /\ ResolverFailed
    /\ Az.calls = <<"resourceIdentifier", "roleBindingResolver">>

\* C6: with an authorizer and a non-empty admin group configured, claims
\* whose groups contain the admin group always reach the decision function
\* with the admin role among the role bindings.
C6_AdminGroupGrantsAdminRole ==
    (/\ out.az # None /\ Az.authzReq # None
     /\ adminGroup(rt) # ""
     /\ adminGroup(rt) \in Range(Az.in.claims.Groups)) =>
        adminRole(rt) \in Range(Az.authzReq[1].RoleBindings)

C6_Witness ==
    /\ out.az # None /\ Az.authzReq # None
    /\ Az.in.claims.Groups = <<"dev", AdminGroup>>
    /\ Az.bound = Some(<<>>)
    /\ Az.authzReq[1].RoleBindings = <<AdminRole>>

\* C7: when the decision function is reached, Authorize returns exactly its
\* result and error, and it is reached whenever an authorizer is configured
\* and no resolver failed; with the read-on-doc authorizer, (doc, read) is
\* allowed and (doc, write) is not.
C7_DecisionVerbatim ==
    out.az # None =>
        /\ Az.decision # None =>
              Az.ar = Az.decision[1].ar /\ Az.err = Az.decision[1].err
        /\ (rt.authorizer # Nil /\ Az.decision = None) => Az.err # Nil
        /\ (rt.authorizer = "readDocOnly" /\ Az.decision # None
              /\ Az.in.resource = "doc") =>
              /\ Az.in.action = "read" => Az.ar.Allowed
              /\ Az.in.action = "write" => ~Az.ar.Allowed

C7_Witness ==
    /\ out.az # None /\ Az.decision # None
    /\ Az.decision[1].ar.Allowed /\ Az.decision[1].err # Nil
    /\ Az.ar.Allowed /\ Az.err # Nil

\* C8: the role bindings of every Authorization Request hold no role twice
\* and are, as a set, the admin grant together with the resolver's roles.
C8_RoleBindingsAreTheUnion ==
    (out.az # None /\ Az.authzReq # None) =>
        LET rb == Az.authzReq[1].RoleBindings
            resolved == IF Az.bound = None THEN {} ELSE Range(Az.bound[1])
        IN  /\ \A i, j \in DOMAIN rb : rb[i] = rb[j] => i = j
            /\ Range(rb) = AdminGrant(Az.in.claims) \cup resolved

C8_Witness ==
    /\ out.az # None /\ Az.authzReq # None
    /\ Az.bound = Some(<<AdminRole, AdminRole>>)
    /\ AdminGrant(Az.in.claims) = {AdminRole}
    /\ Az.authzReq[1].RoleBindings = <<AdminRole>>

\* C9: gRPC token extraction succeeds only with exactly one authorization
\* metadata value; with none, several, or no metadata, extraction fails,
\* Verify is not called and the handler is not reached.
C9_ExactlyOneAuthorizationValue ==
    out.transport \in GRPCTransports =>
        /\ out.token # None => (out.req.md /\ Len(out.req.authHdrs) = 1)
        /\ (~out.req.md \/ Len(out.req.authHdrs) # 1) =>
              /\ out.token = None /\ out.verify = None /\ ~out.handler
              /\ \A i \in DOMAIN out.calls : out.calls[i] # "Verify"
              /\ out.code \in {Unauthenticated, "Unknown"}

C9_Witness ==
    /\ out.transport = "unary" /\ out.code = Unauthenticated
    /\ Len(out.req.authHdrs) = 2
    /\ WellFormed(out.req.authHdrs[1]) /\ WellFormed(out.req.authHdrs[2])

\* C10: for every single Authorization header value the HTTP middleware
\* and the gRPC interceptor both accept or both reject it, and for a value
\* of the form "Bearer <token>" both pass the same token to Verify.
C10_SameBearerConvention ==
    (out.transport = "http" /\ Len(out.req.authHdrs) = 1) =>
        LET g == getTokenFromGRPCContext(out.req)
        IN  /\ (out.token # None) <=> (g.err = Nil)
            /\ (WellFormed(out.req.authHdrs[1]) /\ out.token # None /\ g.err = Nil)
                  => out.token = Some(g.token)

\* C11: when Verify fails it returns an error and no context that carries
\* an authenticated record: the context it returns is nil, no claims come
\* with it, and the request is turned away without reaching the handler.
C11_FailedVerifyYieldsNoIdentity ==
    (out.verify # None /\ out.verify[1].err # Nil) =>
        /\ out.verify[1].ctx.isNil
        /\ out.verify[1].ctx.authn = None
        /\ out.verify[1].claims = None
        /\ out.az = None /\ ~out.handler /\ out.handlerCtx = None
        /\ out.transport \in GRPCTransports => out.code = Unauthenticated
        /\ out.transport = "http" => out.status = StatusUnauthorized

C11_Witness ==
    /\ out.transport = "stream" /\ out.verify # None
    /\ out.verify[1].err # Nil /\ out.verify[1].token = Tok
    /\ out.code = Unauthenticated

\* C15: a gRPC method that is absent from the registry, or registered
\* without the authorization annotation, resolves without error to the
\* empty resource and action, and Authorize is called with those; an
\* annotated method resolves to exactly its annotated resource and action.
C15_ResolvedResourceAndAction ==
    out.transport \in GRPCTransports =>
        LET m == out.req.method
            annotated == m \in DOMAIN MethodDescriptors
                            /\ MethodDescriptors[m].ext = "authz"
            plain == m \notin DOMAIN MethodDescriptors
                        \/ MethodDescriptors[m].ext = "none"
        IN  /\ plain => /\ out.code # "Unknown"
                        /\ out.az # None =>
                              (Az.in.resource = "" /\ Az.in.action = "")
            /\ annotated =>
                  /\ out.code # "Unknown"
                  /\ out.az # None =>
                        /\ Az.in.resource = MethodDescriptors[m].resource
                        /\ Az.in.action = MethodDescriptors[m].action

C15_Witness ==
    /\ out.transport = "unary" /\ out.req.method = "Unknown"
    /\ out.az # None /\ Az.in.resource = "" /\ Az.in.action = ""
    /\ out.handler

\* C12: after Verify succeeds the current-user lookup on the returned
\* context equals the identity resolver applied to the decoded claims, by
\* default the claims' email (alice@example.com), and Authorize on that
\* context with no authorizer configured returns allowed=false, no error.
C12_VerifiedIdentity ==
    /\ (cs.op = "Verify" /\ cs.err = Nil) =>
          /\ CurrentUser(cs.ret) = idResolver(rt, cs.claims[1])
          /\ rt.idResolver = "emailAsIDResolver" =>
                (CurrentUser(cs.ret) = cs.claims[1].Email
                    /\ CurrentUser(cs.ret) = "alice@example.com")
    /\ (cs.op = "Authorize" /\ cs.from = "Verify" /\ rt.authorizer = Nil) =>
          /\ CurrentUser(cs.parent) = idResolver(rt, cs.claims[1])
          /\ cs.az[1].err = Nil /\ ~cs.az[1].ar.Allowed

C12_Witness ==
    /\ cs.op = "Authorize" /\ cs.from = "Verify" /\ rt.authorizer = Nil
    /\ rt.idResolver = "emailAsIDResolver"
    /\ CurrentUser(cs.parent) = "alice@example.com"
    /\ ~cs.az[1].ar.Allowed

\* C13: after Authorize succeeds with an allow decision the context it
\* returns carries the authorized record, and the role lookup on that
\* context returns the role set resolved for the decision.
C13_AllowedContextCarriesRoles ==
    (cs.op = "Authorize" /\ cs.az[1].err = Nil /\ cs.az[1].ar.Allowed) =>
        /\ cs.ret.authz # None
        /\ CurrentUserRoles(cs.ret) = cs.az[1].authzReq[1].RoleBindings

\* C14: without an authenticated record the current-user lookup returns
\* the anonymous identity (and no claims), without an authorized record the
\* role lookup returns the empty role set; a context built with an
\* authenticated record for (user, claims) returns exactly that user and
\* those claims and leaves the role lookup as it was on the parent.
C14_LookupDefaultsAndAuthenticatedRecord ==
    /\ cs.ctx.authn = None =>
          (CurrentUser(cs.ctx) = Anonymous /\ CurrentUserClaims(cs.ctx) = None)
    /\ cs.ctx.authz = None => CurrentUserRoles(cs.ctx) = <<>>
    /\ cs.op = "newAuthenticatedContext" =>
          /\ CurrentUser(cs.ret) = cs.user
          /\ CurrentUserClaims(cs.ret) = cs.claims
          /\ CurrentUserRoles(cs.ret) = CurrentUserRoles(cs.parent)

C14_Witness ==
    /\ cs.op = "newAuthenticatedContext" /\ cs.user = "bob@example.com"
    /\ cs.parent.authn # None /\ CurrentUser(cs.parent) = Email
    /\ CurrentUserRoles(cs.ret) = <<"viewer", AdminRole>>

\* the enter, handler and exit events of a trace, as <<event, index>>
RECURSIVE Shape(_)
Shape(tr) ==
    IF tr = <<>> THEN <<>>
    ELSE LET rest == Shape(Tail(tr))
         IN  IF Head(tr).e \in {"enter", "handler", "exit"}
             THEN <<(<<Head(tr).e, Head(tr).i>>)>> \o rest
             ELSE rest

\* onion order: in 0..n-1, the handler, out n-1..0
Onion(n) ==
    [k \in 1..(2 * n + 1) |->
        IF k <= n THEN <<"enter", k - 1>>
        ELSE IF k = n + 1 THEN <<"handler", ByHandler>>
        ELSE <<"exit", 2 * n + 1 - k>>]

\* every interceptor of the call in ch calls its continuation exactly once
CallsOnce ==
    /\ \A k \in DOMAIN ch.ics : ch.ics[k] \in {"pass", "mask", "auth"}
    /\ \E k \in DOMAIN ch.trace : ch.trace[k].e = "handler"

\* interceptor trace[k].i returned at once, without calling its continuation
ShortCircuit(k) ==
    /\ k < Len(ch.trace)
    /\ ch.trace[k].e = "enter" /\ ch.trace[k + 1].e = "exit"
    /\ ch.trace[k + 1].i = ch.trace[k].i

\* C16: for N > 1 composed interceptors, unary and streaming, a call enters
\* the interceptors in order 0..N-1, then the handler, and completes them
\* in reverse order; the continuation given to interceptor i invokes
\* interceptor i+1 and the one given to the last invokes the handler.
C16_OnionOrder ==
    Len(ch.ics) > 1 =>
        /\ \A k \in DOMAIN ch.trace :
              ch.trace[k].e = "next" =>
                LET i == ch.trace[k].i
                    last == i = Len(ch.ics) - 1
                IN  IF k < Len(ch.trace)
                    THEN IF last THEN ch.trace[k + 1].e = "handler"
                         ELSE (ch.trace[k + 1].e = "enter"
                                 /\ ch.trace[k + 1].i = i + 1)
                    ELSE IF last THEN ch.pc = "handler"
                         ELSE (ch.pc = "enter" /\ ch.at = i + 1)
        /\ (ch.pc = "done" /\ CallsOnce) =>
              Shape(ch.trace) = Onion(Len(ch.ics))

C16_Witness ==
    /\ ch.pc = "done" /\ ch.kind = "stream"
    /\ ch.ics = <<"pass", "mask", "pass">>
    /\ Shape(ch.trace) = Onion(3)

\* C17: if interceptor i returns without calling its continuation then,
\* for that call, no interceptor registered after i and not the handler is
\* invoked, and the value i returned is what the interceptor before i
\* observes (the caller of the composite when i = 0).
C17_ShortCircuit ==
    \A k \in DOMAIN ch.trace :
        ShortCircuit(k) =>
            LET i == ch.trace[k].i
                v == ch.trace[k + 1].v
            IN  /\ i > 0 /\ k + 2 <= Len(ch.trace) =>
                      ch.trace[k + 2] = EvObserve(i - 1, v)
                /\ (i = 0 /\ ch.pc = "done") =>
                      (ch.ret = v /\ k + 1 = Len(ch.trace))
                /\ (\A j \in 1..i : ch.ics[j] # "twice") =>
                      \A m \in DOMAIN ch.trace :
                          /\ ch.trace[m].e # "handler"
                          /\ ch.trace[m].e = "enter" => ch.trace[m].i <= i

C17_Witness ==
    /\ ch.pc = "done" /\ ch.kind = "unary"
    /\ ch.ics = <<"pass", "deny", "pass">>
    /\ ShortCircuit(3) /\ ch.ret = Val(1, "denied")

\* C18: the composite of zero interceptors invokes the handler exactly
\* once with the caller's context and request (or stream) and returns its
\* result unchanged; the composite of one interceptor is that interceptor:
\* the continuation it is given is the handler itself.
C18_ZeroAndOne ==
    /\ (Len(ch.ics) = 0 /\ ch.pc = "done") =>
          /\ ch.trace = <<EvHandler(Background,
                                    IF ch.kind = "stream" THEN 0 ELSE -1)>>
          /\ ch.arg = Arg(Background, 0)
          /\ ch.ret = Val(ByHandler, "response")
    /\ Len(ch.ics) = 1 =>
          /\ ch.mode = "single"
          /\ \A k \in DOMAIN ch.trace :
                /\ ch.trace[k].e # "next"
                /\ ch.trace[k].e = "handler" =>
                      (ch.trace[k - 1].i = 0
                         /\ ch.trace[k - 1].e \in {"enter", "observe"})
          /\ ch.pc = "done" =>
                (ch.trace[1] = EvEnter(0, Background)
                   /\ ch.trace[Len(ch.trace)] = EvExit(0, ch.ret))

C18_Witness ==
    /\ ch.pc = "done" /\ Len(ch.ics) = 0 /\ ch.kind = "stream"
    /\ Len(ch.trace) = 1

\* the first auth interceptor of the chain in ch, and what it verifies to
HasAuth == \E k \in DOMAIN ch.ics : ch.ics[k] = "auth"
FirstAuth ==
    CHOOSE i \in 0..(Len(ch.ics) - 1) :
        /\ ch.ics[i + 1] = "auth"
        /\ \A j \in 0..(i - 1) : ch.ics[j + 1] # "auth"
Verified == newContext(Background, Email)

\* C19: in a streaming call that passes the auth interceptor, the context
\* obtained from Verify/Authorize is what every later interceptor and the
\* handler get from the stream's Context(), the other stream operations
\* reach the transport stream, and when auth fails the stream's context is
\* what it was when the auth interceptor was entered.
C19_StreamContextSubstituted ==
    (ch.kind = "stream" /\ HasAuth) =>
        \A k \in DOMAIN ch.trace :
            LET ev == ch.trace[k]
            IN  /\ (ev.e = "enter" /\ ev.i <= FirstAuth) => ev.ctx = Background
                /\ ((ev.e = "enter" /\ ev.i > FirstAuth) \/ ev.e = "handler") =>
                      (ev.ctx = Verified /\ CurrentUser(ev.ctx) = Email)
                /\ ev.e = "handler" => ev.t = 0
                /\ (ShortCircuit(k) /\ ch.ics[ev.i + 1] = "auth"
                       /\ k + 1 = Len(ch.trace)) =>
                      /\ ArgContext(ch, ch.arg) = ev.ctx
                      /\ ch.ret.val \in {Unauthenticated, PermissionDenied}

C19_Witness ==
    /\ ch.pc = "done" /\ ch.kind = "stream"
    /\ ch.ics = <<"pass", "auth", "pass">>
    /\ \E k \in DOMAIN ch.trace :
          ch.trace[k].e = "handler" /\ ch.trace[k].ctx = Verified
    /\ ch.ws # <<>>

\* C20: matchers are evaluated in registration order and the first that
\* matches wins: a routed connection is with the listener of the first
\* registered matcher that matches its first bytes, never with the
\* listener of a later one that matches too; so on a server without TLS
\* an HTTP/1.1 request goes to the gateway listener although the catch-all
\* matcher of the gRPC listener matches it as well.
C20_FirstMatchWins ==
    mx.pc = "routed" =>
        LET regs == Registrations(mx.cfg)[mx.at]
            p == Prefix(mx)
        IN  /\ mx.pos \in DOMAIN regs
            /\ Matches(regs[mx.pos].m, p) /\ mx.listener = regs[mx.pos].l
            /\ \A j \in DOMAIN regs :
                  /\ j < mx.pos => ~Matches(regs[j].m, p)
                  /\ (j > mx.pos /\ Matches(regs[j].m, p)) =>
                        mx.listener # regs[j].l
            /\ ~mx.cfg.secure =>
                  mx.listener =
                     IF p \in HTTP1Methods
                           \/ (mx.cfg.patch /\ p = "PATCH")
                     THEN "gwL" ELSE "grpcL"

C20_Witness ==
    /\ mx.pc = "routed" /\ ~mx.cfg.secure /\ mx.conn.outer = "GET"
    /\ mx.listener = "gwL" /\ mx.pos = 1
    /\ Matches(Registrations(mx.cfg).cm[2].m, "GET")

\* ------------------------------------------------------------------
\* runtime.Start: the tasks it starts and the error channel they report on
\* ------------------------------------------------------------------

\* the two Start/Stop pairs of the package: the one with the opencensus
\* exporter and the metrics server, and the one with the OTLP exporter
Versions == {"opencensus", "otlp"}

\* capacity of errc
ErrcCap == 8

AllTasks ==
    {"signal", "debugServer", "grpcServer", "gwServer", "htServer",
     "healthServer", "daemon", "metricsServer", "tcm", "cm"}

\* what Start looks at when it decides which goroutines to start
StartConfigs ==
    {c \in [version : Versions, grpcEnabled : BOOLEAN, gwEnabled : BOOLEAN,
            secure : BOOLEAN, htEnabled : BOOLEAN, debugEnabled : BOOLEAN,
            daemon : BOOLEAN] :
        /\ c.gwEnabled => c.grpcEnabled
        /\ c.secure => c.grpcEnabled}

\* the goroutines of Start that end with a send on errc
Tasks(cfg) ==
    {"signal", "healthServer"}
      \cup (IF cfg.debugEnabled THEN {"debugServer"} ELSE {})
      \cup (IF cfg.grpcEnabled THEN {"grpcServer", "cm"} ELSE {})
      \cup (IF cfg.grpcEnabled /\ cfg.gwEnabled THEN {"gwServer"} ELSE {})
      \cup (IF cfg.grpcEnabled /\ cfg.secure THEN {"tcm"} ELSE {})
      \cup (IF cfg.htEnabled THEN {"htServer"} ELSE {})
      \cup (IF cfg.daemon THEN {"daemon"} ELSE {})
      \cup (IF cfg.version = "opencensus" THEN {"metricsServer"} ELSE {})

\* the runtime before Start: errc does not exist yet
SvNew(cfg) ==
    [pc |-> "new", cfg |-> cfg, tasks |-> [t \in AllTasks |-> "off"],
     errc |-> 0, received |-> 0]

InitErrc ==
    /\ sv \in {SvNew(cfg) : cfg \in StartConfigs}
    /\ rt = ChainRuntime /\ out = Idle /\ cs = CsOff /\ ch = ChOff
    /\ mx = MxOff

\* Start makes errc and starts the goroutines
StartTasks ==
    /\ sv.pc = "new"
    /\ sv' = [sv EXCEPT !.pc = "started",
                        !.tasks = [t \in AllTasks |->
                                      IF t \in Tasks(sv.cfg) THEN "running"
                                      ELSE "off"]]
    /\ UNCHANGED <<rt, out, cs, ch, mx>>

\* a goroutine's server returns and the goroutine sends on errc: the value
\* is buffered, or the goroutine blocks because the buffer is full
Report ==
    /\ sv.pc = "started"
    /\ \E t \in AllTasks :
         /\ sv.tasks[t] = "running"
         /\ sv' = IF sv.errc < ErrcCap
                  THEN [sv EXCEPT !.tasks[t] = "reported", !.errc = @ + 1]
                  ELSE [sv EXCEPT !.tasks[t] = "blocked"]
    /\ UNCHANGED <<rt, out, cs, ch, mx>>

\* a blocked send goes through once the buffer has room
Unblock ==
    /\ sv.pc = "started"
    /\ sv.errc < ErrcCap
    /\ \E t \in AllTasks :
         /\ sv.tasks[t] = "blocked"
         /\ sv' = [sv EXCEPT !.tasks[t] = "reported", !.errc = @ + 1]
    /\ UNCHANGED <<rt, out, cs, ch, mx>>

\* the caller of Start receives the first value from errc and never
\* receives again
Receive ==
    /\ sv.pc = "started"
    /\ sv.received = 0 /\ sv.errc > 0
    /\ sv' = [sv EXCEPT !.errc = @ - 1, !.received = 1]
    /\ UNCHANGED <<rt, out, cs, ch, mx>>

NextErrc == StartTasks \/ Report \/ Unblock \/ Receive

SpecErrc == InitErrc /\ [][NextErrc]_vars

\* ------------------------------------------------------------------
\* runtime.Stop: the shutdown phases
\* ------------------------------------------------------------------

\* what Stop looks at: the enabled servers, the optional collaborators
\* (telemetry is the opencensus exporter or the OTLP controller) and, with
\* opencensus, the process metrics collector
StopConfigs ==
    {c \in [version : Versions, apiHandler : BOOLEAN, grpcEnabled : BOOLEAN,
            gwEnabled : BOOLEAN, htEnabled : BOOLEAN, debugEnabled : BOOLEAN,
            daemon : BOOLEAN, shutdownHook : BOOLEAN, telemetry : BOOLEAN,
            processMetricsEnabled : BOOLEAN] :
        /\ c.gwEnabled => c.grpcEnabled
        /\ c.version = "otlp" => ~c.processMetricsEnabled}

\* a Stop that follows one order in both versions: gRPC server before the
\* gateway, telemetry exporter last
StopPhases_OneOrder(version) ==
    IF version = "opencensus"
    THEN <<"apiHandler", "grpcServer", "gwServer", "htServer", "healthServer",
           "debugServer", "metricsServer", "pcm", "daemon", "shutdownHook",
           "exporter">>
    ELSE <<"apiHandler", "grpcServer", "gwServer", "htServer", "healthServer",
           "debugServer", "daemon", "shutdownHook", "exporter">>

\* the statements of Stop, in program order
StopPhases(version) ==
    IF version = "opencensus"
    THEN <<"apiHandler", "grpcServer", "gwServer", "htServer", "healthServer",
           "debugServer", "metricsServer", "pcm", "exporter", "daemon",
           "shutdownHook">>
    ELSE <<"apiHandler", "gwServer", "grpcServer", "htServer", "healthServer",
           "debugServer", "daemon", "shutdownHook", "exporter">>

\* the condition Stop puts around each phase
PhaseEnabled(cfg, phase) ==
    IF phase = "apiHandler" THEN cfg.apiHandler
    ELSE IF phase = "grpcServer" THEN cfg.grpcEnabled
    ELSE IF phase = "gwServer" THEN cfg.gwEnabled
    ELSE IF phase = "htServer" THEN cfg.htEnabled
    ELSE IF phase = "debugServer" THEN cfg.debugEnabled
    ELSE IF phase = "pcm" THEN cfg.processMetricsEnabled
    ELSE IF phase = "exporter" THEN cfg.telemetry
    ELSE IF phase = "daemon" THEN cfg.daemon
    ELSE IF phase = "shutdownHook" THEN cfg.shutdownHook
    ELSE TRUE

\* the phases a Stop of this configuration goes through
Plan(cfg) ==
    SelectSeq(StopPhases(cfg.version), LAMBDA ph : PhaseEnabled(cfg, ph))

\* phases whose call returns no error to Stop
NoErrorPhases == {"apiHandler", "grpcServer", "pcm"}

\* the support services that run once Start has returned
Services(cfg) ==
    {ph \in Range(Plan(cfg)) : ph \notin {"apiHandler", "shutdownHook"}}

\* healthChecker.Stop: with h.server set it returns nil and shuts nothing
\* down; with h.server not yet set it signals the checker and calls
\* Shutdown on what h.server holds by then; when Start was never called
\* nobody receives from h.quit and the send never completes
healthStop(health) ==
    IF health = "serving" THEN {"not-stopped"}
    ELSE IF health = "starting" THEN {"ok", "error", "panic"}
    ELSE {"blocked"}

\* what Stop does with the result of a phase: an error is logged, except
\* that of the health server, which is logged with Fatalf
afterPhase(phase, outcome) ==
    IF outcome = "panic" THEN "panicked"
    ELSE IF outcome = "blocked" THEN "blocked"
    ELSE IF phase = "healthServer" /\ outcome = "error" THEN "exited"
    ELSE "stopping"

SvStop(pc, cfg) ==
    [pc |-> pc, cfg |-> cfg, health |-> "off", i |-> 1, log |-> <<>>,
     running |-> {}]

InitStop ==
    /\ sv \in {SvStop("new", cfg) : cfg \in StopConfigs}
    /\ rt = ChainRuntime /\ out = Idle /\ cs = CsOff /\ ch = ChOff
    /\ mx = MxOff

\* Start has returned: the services run and the health goroutine is on
\* its way into healthChecker.Start
Started ==
    /\ sv.pc = "new"
    /\ sv' = [sv EXCEPT !.pc = "started", !.health = "starting",
                        !.running = Services(sv.cfg)]
    /\ UNCHANGED <<rt, out, cs, ch, mx>>

\* Start returns an error (telemetry exporter, listener or TLS set-up):
\* the goroutines after that point, the health one included, never start
StartFails ==
    /\ sv.pc = "new"
    /\ sv' = [sv EXCEPT !.pc = "startFailed"]
    /\ UNCHANGED <<rt, out, cs, ch, mx>>

\* healthChecker.Start sets h.server and serves
HealthServe ==
    /\ sv.pc = "started" /\ sv.health = "starting"
    /\ sv' = [sv EXCEPT !.health = "serving"]
    /\ UNCHANGED <<rt, out, cs, ch, mx>>

\* the caller calls Stop: after Start, after a failed Start or without Start
StopBegin ==
    /\ sv.pc \in {"new", "started", "startFailed"}
    /\ sv' = [sv EXCEPT !.pc = "stopping", !.i = 1, !.log = <<>>]
    /\ UNCHANGED <<rt, out, cs, ch, mx>>

\* one phase of Stop other than the health server's
StopPhase ==
    /\ sv.pc = "stopping" /\ sv.i <= Len(Plan(sv.cfg))
    /\ LET ph == Plan(sv.cfg)[sv.i]
       IN  /\ ph # "healthServer"
           /\ \E o \in IF ph \in NoErrorPhases THEN {"ok"} ELSE {"ok", "error"} :
                sv' = [sv EXCEPT !.pc = afterPhase(ph, o), !.i = @ + 1,
                                 !.log = Append(@, [phase |-> ph, outcome |-> o]),
                                 !.running = @ \ {ph}]
    /\ UNCHANGED <<rt, out, cs, ch, mx>>

\* the health phase of Stop
StopHealth ==
    /\ sv.pc = "stopping" /\ sv.i <= Len(Plan(sv.cfg))
    /\ Plan(sv.cfg)[sv.i] = "healthServer"
    /\ \E o \in healthStop(sv.health) :
         sv' = [sv EXCEPT !.pc = afterPhase("healthServer", o), !.i = @ + 1,
                          !.log = Append(@, [phase |-> "healthServer",
                                             outcome |-> o]),
                          !.running = IF o \in {"ok", "error"}
                                      THEN @ \ {"healthServer"} ELSE @]
    /\ UNCHANGED <<rt, out, cs, ch, mx>>

\* Stop returns
StopReturn ==
    /\ sv.pc = "stopping" /\ sv.i > Len(Plan(sv.cfg))
    /\ sv' = [sv EXCEPT !.pc = "done"]
    /\ UNCHANGED <<rt, out, cs, ch, mx>>

NextStop ==
    \/ Started \/ StartFails \/ HealthServe \/ StopBegin \/ StopPhase
    \/ StopHealth \/ StopReturn

SpecStop == InitStop /\ [][NextStop]_vars

\* Stop runs on the caller's goroutine: a phase that can proceed does
SpecStopLive ==
    /\ InitStop /\ [][NextStop]_vars
    /\ WF_vars(StopPhase) /\ WF_vars(StopHealth) /\ WF_vars(StopReturn)

\* ------------------------------------------------------------------
\* Two calls at a time through one composite interceptor
\* ------------------------------------------------------------------

\* the calls gRPC runs concurrently, each on its own goroutine
ConcCalls == {1, 2}

\* a composite whose closure variables are made once, when the chain is built
closureCell_Shared(call) == 1

\* the variables cur and next belong to the invocation of the composite:
\* cur := 0 runs inside the returned function, once per call
closureCell(call) == call

\* the expected passage of a call through n pass-through interceptors:
\* interceptors 0..n-1 in order, then the handler
Passage(n) == [k \in 1..(n + 1) |-> IF k <= n THEN k - 1 ELSE ByHandler]

ConcIdle == [pc |-> "idle", stack |-> <<>>, trace |-> <<>>]

InitConc ==
    /\ ch \in {[pc |-> "conc", kind |-> kind, n |-> n,
                cells |-> [c \in ConcCalls |-> 0],
                calls |-> [c \in ConcCalls |-> ConcIdle]] :
                  kind \in Kinds, n \in 2..MaxChain}
    /\ rt = ChainRuntime /\ out = Idle /\ cs = CsOff /\ mx = MxOff
    /\ sv = SvOff

\* gRPC invokes the composite for a call: cur := 0, then interceptors[0]
ConcInvoke ==
    /\ \E c \in ConcCalls :
         /\ ch.calls[c].pc = "idle"
         /\ ch' = [ch EXCEPT
                     !.cells[closureCell(c)] = 0,
                     !.calls[c] = [pc |-> "down", stack |-> <<0>>,
                                   trace |-> <<0>>]]
    /\ UNCHANGED <<rt, out, cs, mx, sv>>

\* the interceptor a call is in calls next: the handler runs and returns,
\* or cur++ and the interceptor at cur starts
ConcNext ==
    /\ \E c \in ConcCalls :
         /\ ch.calls[c].pc = "down"
         /\ LET nx == next(ch.n, ch.cells[closureCell(c)])
            IN  IF nx.to = "handler"
                THEN ch' = [ch EXCEPT
                              !.calls[c].pc = "up",
                              !.calls[c].trace = Append(@, ByHandler)]
                ELSE ch' = [ch EXCEPT
                              !.cells[closureCell(c)] = nx.cur,
                              !.calls[c].stack = Append(@, nx.cur),
                              !.calls[c].trace = Append(@, nx.cur)]
    /\ UNCHANGED <<rt, out, cs, mx, sv>>

\* the interceptor a call is in returns: to next, which does cur--, or,
\* for interceptors[0], to gRPC
ConcReturn ==
    /\ \E c \in ConcCalls :
         /\ ch.calls[c].pc = "up"
         /\ LET st == ch.calls[c].stack
            IN  IF Len(st) = 1
                THEN ch' = [ch EXCEPT !.calls[c].pc = "done",
                                      !.calls[c].stack = <<>>]
                ELSE ch' = [ch EXCEPT
                              !.cells[closureCell(c)] = nextReturn(@),
                              !.calls[c].stack = SubSeq(st, 1, Len(st) - 1)]
    /\ UNCHANGED <<rt, out, cs, mx, sv>>

\* the call is over; gRPC uses the goroutine for the next call
ConcDone ==
    /\ \E c \in ConcCalls :
         /\ ch.calls[c].pc = "done"
         /\ ch' = [ch EXCEPT !.calls[c] = ConcIdle]
    /\ UNCHANGED <<rt, out, cs, mx, sv>>

NextConc == ConcInvoke \/ ConcNext \/ ConcReturn \/ ConcDone

SpecConc == InitConc /\ [][NextConc]_vars

\* ------------------------------------------------------------------
\* health.healthChecker: the check loop, the two probe endpoints, Stop
\* ------------------------------------------------------------------

\* check rounds followed per run
MaxRounds == 4

\* probes the application may register, and thresholds it may configure
ProbeNames == {"db", "cache"}
FailureThresholds == {0, 2}

\* one round of healthcheck: the new failureCount
healthcheck(failureCount, healthy) ==
    IF healthy THEN 0 ELSE failureCount + 1

\* a liveness endpoint that fails as soon as the threshold is reached
livenessProbe_AtThreshold(h) == h.failureCount >= h.failureThreshold

\* livenessProbe / readinessProbe: TRUE when the answer is "service
\* unhealthy" (500), FALSE for the empty 200 answer
livenessProbe(h) == h.failureCount > h.failureThreshold
readinessProbe(h) == h.failureCount > 0

\* health.New with the options applied; nothing started yet
HcNew(probes, threshold) ==
    [pc |-> "health", probes |-> probes, failureThreshold |-> threshold,
     failureCount |-> 0, server |-> "nil", loop |-> "off", quit |-> 0,
     stop |-> "none", rounds |-> <<>>, resp |-> None]

InitHealth ==
    /\ sv \in {HcNew(ps, th) : ps \in SUBSET ProbeNames, th \in FailureThresholds}
    /\ rt = ChainRuntime /\ out = Idle /\ cs = CsOff /\ ch = ChOff
    /\ mx = MxOff

\* Start, first statement: go h.healthcheck()
HcStartLoop ==
    /\ sv.loop = "off" /\ sv.stop = "none"
    /\ sv' = [sv EXCEPT !.loop = "running"]
    /\ UNCHANGED <<rt, out, cs, ch, mx>>

\* Start, the rest: h.server is set and serves
HcStartServer ==
    /\ sv.loop = "running" /\ sv.server = "nil"
    /\ sv' = [sv EXCEPT !.server = "serving"]
    /\ UNCHANGED <<rt, out, cs, ch, mx>>

\* the default branch of the loop: every probe is asked, failureCount is
\* reset or incremented
HcRound ==
    /\ sv.loop = "running" /\ Len(sv.rounds) < MaxRounds
    /\ \E unhealthy \in SUBSET sv.probes :
         sv' = [sv EXCEPT
                  !.failureCount = healthcheck(@, unhealthy = {}),
                  !.rounds = Append(@, unhealthy = {})]
    /\ UNCHANGED <<rt, out, cs, ch, mx>>

\* a request to /live or /ready while the server serves
HcProbe ==
    /\ sv.server = "serving"
    /\ \E ep \in {"live", "ready"} :
         sv' = [sv EXCEPT
                  !.resp = Some([endpoint |-> ep,
                                 unhealthy |-> IF ep = "live"
                                               THEN livenessProbe(sv)
                                               ELSE readinessProbe(sv),
                                 at |-> Len(sv.rounds)])]
    /\ UNCHANGED <<rt, out, cs, ch, mx>>

\* Stop is called: with h.server set it returns nil at once, otherwise it
\* goes on to send on h.quit
HcStop ==
    /\ sv.stop = "none"
    /\ sv' = [sv EXCEPT !.stop = IF sv.server # "nil" THEN "returned"
                                 ELSE "sending"]
    /\ UNCHANGED <<rt, out, cs, ch, mx>>

\* the loop takes the value from h.quit; its break leaves the select, not
\* the for, so the loop goes on
HcQuit ==
    /\ sv.stop = "sending" /\ sv.loop = "running"
    /\ sv' = [sv EXCEPT !.quit = @ + 1, !.stop = "shutdown"]
    /\ UNCHANGED <<rt, out, cs, ch, mx>>

\* Stop, last statement: h.server.Shutdown(ctx) on what h.server holds now
HcShutdown ==
    /\ sv.stop = "shutdown"
    /\ sv' = IF sv.server = "nil"
             THEN [sv EXCEPT !.stop = "panic"]
             ELSE [sv EXCEPT !.stop = "returned", !.server = "shutdown"]
    /\ UNCHANGED <<rt, out, cs, ch, mx>>

NextHealth ==
    \/ HcStartLoop \/ HcStartServer \/ HcRound \/ HcProbe
    \/ HcStop \/ HcQuit \/ HcShutdown

SpecHealth == InitHealth /\ [][NextHealth]_vars

\* ------------------------------------------------------------------
\* processMetricsCollector: Start loop and Stop
\* ------------------------------------------------------------------

\* samples followed per run
MaxTicks == 10

\* NewProcessMetricsCollector: only period is set; the done channel is nil
NewProcessMetricsCollector ==
    [pc |-> "pcm", done |-> "nil", loop |-> "off", samples |-> 0,
     stopCalls |-> 0, afterStop |-> 0, panicked |-> FALSE, beat |-> 0]

\* the cases of the select in Start that can be taken: the ticker fires
\* again and again; receiving from done succeeds once done is closed and
\* never on a nil channel
selectReady(p) ==
    {"ticker"} \cup (IF p.done = "closed" THEN {"done"} ELSE {})

InitPcm ==
    /\ sv = NewProcessMetricsCollector
    /\ rt = ChainRuntime /\ out = Idle /\ cs = CsOff /\ ch = ChOff
    /\ mx = MxOff

\* runtime.Start: go func() { _ = r.pcm.Start() }()
PcmStart ==
    /\ sv.loop = "off"
    /\ sv' = [sv EXCEPT !.loop = "running"]
    /\ UNCHANGED <<rt, out, cs, ch, mx>>

\* one pass of the loop of Start: record a sample, or return nil; the
\* samples are counted up to MaxTicks, beat tells one pass from the next
PcmSelect ==
    /\ sv.loop = "running"
    /\ \E case \in selectReady(sv) :
         sv' = IF case = "done"
               THEN [sv EXCEPT !.loop = "returned"]
               ELSE [sv EXCEPT !.beat = 1 - @,
                               !.samples = IF @ < MaxTicks THEN @ + 1 ELSE @,
                               !.afterStop = IF sv.stopCalls > 0 /\ @ < MaxTicks
                                             THEN @ + 1 ELSE @]
    /\ UNCHANGED <<rt, out, cs, ch, mx>>

\* Stop: close(p.done) when p.done is not nil; closing a closed channel
\* panics
PcmStop ==
    /\ sv.stopCalls < 2 /\ ~sv.panicked
    /\ sv' = IF sv.done = "nil"
             THEN [sv EXCEPT !.stopCalls = @ + 1]
             ELSE IF sv.done = "closed"
             THEN [sv EXCEPT !.stopCalls = @ + 1, !.panicked = TRUE]
             ELSE [sv EXCEPT !.stopCalls = @ + 1, !.done = "closed"]
    /\ UNCHANGED <<rt, out, cs, ch, mx>>

NextPcm == PcmStart \/ PcmSelect \/ PcmStop

\* the goroutine of Start keeps running while a case of its select is ready
SpecPcmLive == InitPcm /\ [][NextPcm]_vars /\ WF_vars(PcmSelect)

\* the connection in mx has been handed to a listener of the multiplexer
Handed == mx.pc \in {"routed", "served", "abandoned"}
\* some matcher registered with the multiplexer mx.at matches the connection
SomeMatch ==
    \E j \in DOMAIN Registrations(mx.cfg)[mx.at] :
        Matches(Registrations(mx.cfg)[mx.at][j].m, Prefix(mx))
HTTP1Matcher == HTTP1Fast(IF mx.cfg.patch THEN {"PATCH"} ELSE {})
RPCMatchers == {"Any", "HTTP2MatchHeaderFieldPrefixSendSettings"}

\* C21: a connection a multiplexer accepted is handed to at most one of its
\* listeners, and a connection that no registered matcher matches is closed
\* and handed to none.
C21_AtMostOneListener ==
    /\ Len(mx.handed) <= 1
    /\ Handed => (mx.handed = <<mx.listener>> /\ SomeMatch)
    /\ mx.pc = "closed" => (mx.handed = <<>> /\ mx.by = "" /\ ~SomeMatch)
    /\ (mx.pc \in {"routed", "served", "abandoned", "closed"} /\ ~SomeMatch)
          => mx.pc = "closed"

C21_Witness ==
    /\ mx.pc = "closed" /\ mx.at = "tcm" /\ mx.hs = "ok"
    /\ mx.conn.inner = "h2-other" /\ Len(mx.tried) = 3

C23_PlaintextClosedUnderTLS ==
    (mx.cfg.secure /\ mx.conn.outer \notin {TLSHello, NoBytes}) =>
        /\ mx.pc \in {"accepted", "closed"} /\ mx.at = "cm"
        /\ mx.handed = <<>> /\ mx.by = "" /\ mx.read = <<>>

C23_Witness ==
    /\ mx.cfg.secure /\ mx.cfg.clientCA = "valid" /\ mx.conn.outer = "GET"
    /\ mx.pc = "closed" /\ mx.tried = <<[at |-> "cm", m |-> TLS]>>

\* C24: the bytes a protocol server reads from a connection it accepted
\* are the bytes the client sent on that stream, those the matchers read
\* included; likewise the bytes the TLS layer reads behind cm.
C24_ClassificationKeepsBytes ==
    /\ mx.pc = "served" => mx.read = Bytes(Prefix(mx))
    /\ mx.at = "tcm" => mx.readTLS = Bytes(mx.conn.outer)

C24_Witness ==
    /\ mx.pc = "served" /\ mx.at = "tcm" /\ mx.by = "grpcServer"
    /\ Len(mx.buf) = 2 /\ mx.read = Bytes("h2-grpc")
    /\ mx.readTLS = Bytes(TLSHello)

\* C25: every listener Start registers with a multiplexer is accepted from
\* by exactly one protocol server, so no connection is handed to a
\* listener nobody serves.
C25_EveryListenerServed ==
    mx.pc # "new" =>
        /\ \A at \in {"cm", "tcm"} :
              \A j \in DOMAIN Registrations(mx.cfg)[at] :
                  Cardinality(Servers(mx.cfg)[Registrations(mx.cfg)[at][j].l]) = 1
        /\ mx.pc # "abandoned"

\* C30: with a client CA configured Start either serves the TLS branch
\* with a configuration that requires and verifies client certificates
\* against that CA, or fails.
C30_ClientCAEnforcedOrStartFails ==
    (mx.cfg.clientCA # "" /\ mx.pc \notin {"new", "failed"}) =>
        /\ mx.tls # None
        /\ mx.tls[1].ClientAuth = RequireAndVerifyClientCert
        /\ mx.tls[1].ClientCAs = mx.cfg.clientCA

\* C26: errc is large enough for every goroutine Start starts: once the
\* caller has received its one value, no goroutine is left blocked on its
\* send with the buffer full.
C26_NoTaskBlockedForGood ==
    ~ (/\ sv.pc = "started" /\ sv.received = 1 /\ sv.errc = ErrcCap
       /\ \E t \in AllTasks : sv.tasks[t] = "blocked")

\* the phases Stop has gone through so far, in order
Phases == [k \in DOMAIN sv.log |-> sv.log[k].phase]
\* phase a, where it happened, happened before phase b
Before(a, b) ==
    \A i, j \in DOMAIN sv.log :
        (Phases[i] = a /\ Phases[j] = b) => i < j
\* position of a phase in the order the claim gives; 0 for a phase the
\* claim does not mention
ClaimedRank(ph) ==
    IF ph = "apiHandler" THEN 1
    ELSE IF ph = "grpcServer" THEN 2
    ELSE IF ph \in {"gwServer", "htServer"} THEN 3
    ELSE IF ph = "healthServer" THEN 4
    ELSE IF ph = "debugServer" THEN 5
    ELSE IF ph = "daemon" THEN 6
    ELSE IF ph = "shutdownHook" THEN 7
    ELSE IF ph = "exporter" THEN 8
    ELSE 0

\* C27 (as claimed): the phases of Stop run in the order API handlers, gRPC
\* server, gateway and HTTP servers, health server, debug server, daemon,
\* shutdown hook and, last, the telemetry exporter.
C27_ClaimedStopOrder ==
    \A i, j \in DOMAIN sv.log :
        (i < j /\ ClaimedRank(Phases[i]) > 0 /\ ClaimedRank(Phases[j]) > 0)
            => ClaimedRank(Phases[i]) <= ClaimedRank(Phases[j])

\* C27 (amended): every phase runs at most once; API handlers come first,
\* then the gRPC server and the gateway, then the HTTP server, the health
\* server, the debug server, the daemon and the shutdown hook. With the
\* OTLP exporter the gateway is shut down before the gRPC server and the
\* exporter is stopped last, after the hook; with the opencensus exporter
\* the gRPC server is stopped before the gateway and the exporter is
\* stopped after the metrics server and before the daemon and the hook.
C27_StopOrderPerVersion ==
    /\ \A i, j \in DOMAIN sv.log : Phases[i] = Phases[j] => i = j
    /\ \A ph \in Range(Phases) \ {"apiHandler"} : Before("apiHandler", ph)
    /\ \A ph \in {"grpcServer", "gwServer"} : Before(ph, "htServer")
    /\ \A ph \in {"grpcServer", "gwServer", "htServer"} : Before(ph, "healthServer")
    /\ Before("healthServer", "debugServer")
    /\ \A ph \in {"grpcServer", "gwServer", "htServer", "healthServer", "debugServer"} :
          Before(ph, "daemon")
    /\ Before("daemon", "shutdownHook")
    /\ sv.cfg.version = "otlp" =>
          /\ Before("gwServer", "grpcServer")
          /\ \A ph \in Range(Phases) \ {"exporter"} : Before(ph, "exporter")
    /\ sv.cfg.version = "opencensus" =>
          /\ Before("grpcServer", "gwServer")
          /\ Before("metricsServer", "exporter")
          /\ Before("exporter", "daemon")
          /\ Before("exporter", "shutdownHook")

C27_Witness ==
    /\ sv.pc = "done" /\ sv.cfg.version = "otlp" /\ Len(sv.log) = 9
    /\ Phases[2] = "gwServer" /\ Phases[3] = "grpcServer"
    /\ Phases[8] = "shutdownHook" /\ Phases[9] = "exporter"

\* C28: a failure in a phase of Stop is only logged: Stop goes on, and
\* when it returns every phase of its configuration has run.
C28_FailureOnlyLogged ==
    /\ sv.pc \notin {"exited", "panicked"}
    /\ sv.pc = "done" => Phases = Plan(sv.cfg)

\* C29: the shutdown hook is called at most once per Stop and only when
\* every support service has been stopped.
C29_HookAfterAllServices ==
    /\ Cardinality({k \in DOMAIN sv.log : Phases[k] = "shutdownHook"}) <= 1
    /\ (Len(sv.log) > 0 /\ Phases[Len(sv.log)] = "shutdownHook")
          => sv.running = {}

\* C31: Verify and Authorize called with a cancelled context return an
\* error, and Authorize never returns an allow decision then.
C31_CancelledContextAborts ==
    (cs.op \in {"Verify", "Authorize"} /\ cs.parent.done) =>
        /\ cs.err # Nil
        /\ cs.az # None => ~cs.az[1].ar.Allowed

\* the functions one Authorize call of rt goes through, in order
Configured ==
    SelectSeq(<<"resourceIdentifier", "roleBindingResolver",
                "resourceResolver", "authorizer">>,
              LAMBDA f : IF f = "authorizer" THEN TRUE ELSE rt[f])
\* the error each resolver reports when it fails
ResolverError(f) ==
    IF f = "resourceIdentifier" THEN "resource id failed"
    ELSE IF f = "roleBindingResolver" THEN "role lookup failed"
    ELSE "resource lookup failed"

\* C33: with an authorizer configured every Authorize call invokes the
\* configured resource identifier, role-binding resolver, resource
\* resolver and decision function in that order, each at most once and
\* anew on every call; the first of them that fails ends the call with
\* its error and the later ones are not invoked.
C33_CollaboratorsInOrderUntilError ==
    out.az # None =>
        IF rt.authorizer = Nil THEN Az.calls = <<>>
        ELSE /\ Len(Az.calls) \in 1..Len(Configured)
             /\ Az.calls = SubSeq(Configured, 1, Len(Az.calls))
             /\ Az.err = Nil => Az.calls = Configured
             /\ Len(Az.calls) < Len(Configured) =>
                   /\ Az.err = ResolverError(Az.calls[Len(Az.calls)])
                   /\ Az.decision = None /\ Az.authzReq = None
             /\ (Az.authzReq # None /\ rt.resourceIdentifier) =>
                   Az.authzReq[1].ResourceID = "r1"

C33_Witness ==
    /\ out.az # None /\ Az.err = "resource lookup failed"
    /\ Az.calls = <<"resourceIdentifier", "roleBindingResolver",
                    "resourceResolver">>
    /\ Az.decision = None

\* C34: the subject handed to the role-binding resolver and to the
\* resource resolver and placed in the Authorization Request is the user
\* of the authenticated record of the context given to Authorize, whatever
\* the claims argument says, and the anonymous identity without a record.
C34_SubjectIsCurrentUser ==
    out.az # None =>
        LET expected == IF Az.in.ctx.authn = None THEN Anonymous
                        ELSE Az.in.ctx.authn[1].user
        IN  /\ Az.authzReq # None => Az.authzReq[1].Subject = expected
            /\ "roleBindingResolver" \in Range(Az.calls) =>
                  Az.rbSubject = Some(expected)
            /\ "resourceResolver" \in Range(Az.calls) =>
                  Az.resSubject = Some(expected)

C34_Witness ==
    /\ out.az # None /\ Az.authzReq # None
    /\ Az.in.ctx = newContext(Background, "bob@example.com")
    /\ Az.in.claims.Email = Email
    /\ Az.authzReq[1].Subject = "bob@example.com"
    /\ Az.rbSubject = Some("bob@example.com")
    /\ Az.resSubject = Some("bob@example.com")

\* C35: without an admin group configured the group mapping never grants
\* the admin role, and when no group of the claims is the admin group the
\* admin role is among the role bindings only if the role-binding
\* resolver returned it.
C35_NoAdminWithoutGroupMatch ==
    (/\ out.az # None /\ Az.authzReq # None
     /\ \/ adminGroup(rt) = ""
        \/ \A i \in DOMAIN Az.in.claims.Groups :
              Az.in.claims.Groups[i] # adminGroup(rt)) =>
        (adminRole(rt) \in Range(Az.authzReq[1].RoleBindings) =>
            (Az.bound # None /\ adminRole(rt) \in Range(Az.bound[1])))

C35_Witness ==
    /\ out.az # None /\ Az.authzReq # None
    /\ rt.adminMapping = <<"", AdminRole>>
    /\ Az.in.claims.Groups = <<"dev", "">>
    /\ Az.bound = Some(<<"viewer">>)
    /\ Az.authzReq[1].RoleBindings = <<"viewer">>

\* C36: two calls running at the same time through one composite of more
\* than one interceptor do not disturb each other: at every moment each
\* call has gone through an initial part of interceptors 0..N-1 and the
\* handler, in that order and each once, and a finished call through all.
C36_CallsDoNotInterfere ==
    \A c \in ConcCalls :
        LET t == ch.calls[c].trace
        IN  /\ Len(t) <= ch.n + 1
            /\ t = SubSeq(Passage(ch.n), 1, Len(t))
            /\ ch.calls[c].pc \in {"up", "done"} => t = Passage(ch.n)

C36_Witness ==
    /\ ch.n = 3
    /\ ch.calls[1].pc = "down" /\ ch.calls[1].stack = <<0, 1>>
    /\ ch.calls[2].pc = "up" /\ ch.calls[2].stack = <<0, 1>>
    /\ ch.calls[2].trace = Passage(3)

\* the number of FALSE entries at the end of a sequence of round results
RECURSIVE TrailingFailures(_)
TrailingFailures(rounds) ==
    IF rounds = <<>> \/ rounds[Len(rounds)] THEN 0
    ELSE 1 + TrailingFailures(SubSeq(rounds, 1, Len(rounds) - 1))

\* C32: when Stop has returned on a health service that was started, the
\* HTTP server has been shut down and the check loop has taken the quit
\* signal and ended.
C32_StopShutsHealthServiceDown ==
    (sv.stop = "returned" /\ sv.loop # "off") =>
        /\ sv.server = "shutdown"
        /\ sv.quit > 0 /\ sv.loop = "terminated"

\* C38: failureCount is the number of most recent consecutive rounds in
\* which a probe was unhealthy; /ready answers unhealthy exactly when that
\* number is above zero and /live exactly when it is above the threshold.
C38_FailureCountAndEndpoints ==
    /\ sv.failureCount = TrailingFailures(sv.rounds)
    /\ sv.resp # None =>
          LET failures == TrailingFailures(SubSeq(sv.rounds, 1, sv.resp[1].at))
          IN  sv.resp[1].unhealthy <=>
                 IF sv.resp[1].endpoint = "ready" THEN failures > 0
                 ELSE failures > sv.failureThreshold

C38_Witness ==
    /\ sv.failureThreshold = 2 /\ sv.rounds = <<TRUE, FALSE, FALSE, FALSE>>
    /\ sv.failureCount = 3
    /\ sv.resp = Some([endpoint |-> "live", unhealthy |-> TRUE, at |-> 4])

\* C37: a Stop that has been called returns, whether Start had returned
\* successfully, had failed, or was never called.
C37_StopEventuallyReturns == (sv.pc = "stopping") ~> (sv.pc = "done")

\* C39: once Stop has been called on a collector whose Start loop runs,
\* the loop returns.
C39_StartReturnsAfterStop ==
    (sv.stopCalls > 0 /\ sv.loop = "running") ~> (sv.loop = "returned")

====
